---------------------------- MODULE Spec2Model ----------------------------
(***************************************************************************)
(* A model of src/src/utils/analyzer.ts (the first module of that file,    *)
(* lines 1-567): analyzeCode parses a source text, locates the function-   *)
(* like definitions of the syntax tree, walks each located body once to    *)
(* fill a Feature Record (analysis.details), classifies the record with    *)
(* determineComplexity and keeps the running maximum of the classes.       *)
(*                                                                         *)
(* The syntax tree is the ESTree that acorn.parse returns and the walks    *)
(* are acorn-walk's walk.recursive: a visitor given for a node type        *)
(* replaces the library's base visitor of that type, and the children of   *)
(* such a node are visited only where the visitor calls its callback.      *)
(* Every other node type is walked by the base visitor, which visits the   *)
(* node's children in source order and changes nothing.                    *)
(*                                                                         *)
(* A node is a record [type, name, op, value, computed, kids, text]:       *)
(*   type      the ESTree node type                                        *)
(*   name      Identifier.name (for a function-like node: id.name or       *)
(*             key.name, "" when the id/key is missing or no Identifier)   *)
(*   op        the operator of a Binary/Unary expression; for a Literal    *)
(*             the kind of its value ("number", "string")                  *)
(*   value     Literal.value when it is a number                           *)
(*   computed  MemberExpression.computed                                   *)
(*   kids      the child nodes, see the accessors below                    *)
(*   text      for a function-like node, the needles (see Needles) that    *)
(*             code.substring(body.start, body.end) contains               *)
(***************************************************************************)
EXTENDS Integers, Sequences, FiniteSets, TLC

VARIABLES
    code,               \* the input of analyzeCode: [parses, message, source]
    pc,                 \* position in analyzeCode
    outer,              \* walk.recursive(ast, ...): nodes still to visit
    inner,              \* walk.recursive(node, ...) of analyzeFunction: nodes still to visit
    analysis,           \* the FunctionAnalysis being filled
    loopDepths,         \* { currentLoopDepth, maxLoopDepth }
    state,              \* the walk state { functionName, inLoop }
    functions,          \* const functions: FunctionAnalysis[]
    overallComplexity,  \* let overallComplexity
    result,             \* the AnalysisResult returned
    fuel                \* nodes the unrevealed part of the input may still hold

vars == <<code, pc, outer, inner, analysis, loopDepths, state, functions,
          overallComplexity, result, fuel>>

-----------------------------------------------------------------------------
(* enum TimeComplexity; the superscripts in the values of lines 9 and 10   *)
(* are written ^2 and ^3                                                   *)

O_CONSTANT     == "O(1)"
O_LOGARITHMIC  == "O(log n)"
O_LINEAR       == "O(n)"
O_LINEARITHMIC == "O(n log n)"
O_QUADRATIC    == "O(n^2)"
O_CUBIC        == "O(n^3)"
O_EXPONENTIAL  == "O(2^n)"
O_FACTORIAL    == "O(n!)"

TimeComplexity ==
    { O_CONSTANT, O_LOGARITHMIC, O_LINEAR, O_LINEARITHMIC,
      O_QUADRATIC, O_CUBIC, O_EXPONENTIAL, O_FACTORIAL }

(* the array `order` of compareComplexity *)
order ==
    << O_CONSTANT, O_LOGARITHMIC, O_LINEAR, O_LINEARITHMIC,
       O_QUADRATIC, O_CUBIC, O_EXPONENTIAL, O_FACTORIAL >>

(* Array.prototype.indexOf: the first 0-based index of x, -1 when absent *)
indexOf(arr, x) ==
    IF \E i \in 1..Len(arr) : arr[i] = x
    THEN (CHOOSE i \in 1..Len(arr) : arr[i] = x /\ \A j \in 1..(i-1) : arr[j] # x) - 1
    ELSE -1

compareComplexity_reversed(a, b) == indexOf(order, b) - indexOf(order, a)

compareComplexity(a, b) == indexOf(order, a) - indexOf(order, b)

(* lines 76-78: the running maximum kept by analyzeFunction *)
aggregate_lastWins(overall, complexity) == complexity

aggregate(overall, complexity) ==
    IF compareComplexity(complexity, overall) > 0 THEN complexity ELSE overall

-----------------------------------------------------------------------------
(* The body text. String.prototype.includes(needle) is modelled on the set *)
(* of needles the text contains; the needles are the string literals the   *)
(* detectors and the classifier search for.                                *)

Needles ==
    { "Math.floor", "Math.ceil", "parseInt", ">>1", ">>>1", "/2", "/ 2",
      "return", "concat", "push", "splice", "=", "+=", "-=", "<", ">",
      "===", "==", "mid", "middle", "left", "right",
      ".filter(", ".map(", ".reduce(", ".slice(" }

includes(body, needle) == needle \in body

(* a needle that contains another one cannot occur without it *)
SubNeedles ==
    { <<">>>1", ">>1">>, <<">>1", ">">>, <<"===", "==">>, <<"==", "=">>,
      <<"+=", "=">>, <<"-=", "=">>, <<"middle", "mid">> }

IsText(body) ==
    /\ body \subseteq Needles
    /\ \A p \in SubNeedles : p[1] \in body => p[2] \in body

-----------------------------------------------------------------------------
(* Syntax tree nodes *)

Node(type, name, op, value, computed, kids, text) ==
    [type |-> type, name |-> name, op |-> op, value |-> value,
     computed |-> computed, kids |-> kids, text |-> text]

Identifier(name) == Node("Identifier", name, "", 0, FALSE, <<>>, {})
Literal(n)       == Node("Literal", "", "number", n, FALSE, <<>>, {})
StringLiteral    == Node("Literal", "", "string", 0, FALSE, <<>>, {})

(* CallExpression: kids = <<callee>> \o arguments *)
CallExpression(calleeNode, args) ==
    Node("CallExpression", "", "", 0, FALSE, <<calleeNode>> \o args, {})
(* BinaryExpression: kids = <<left, right>> *)
BinaryExpression(operator, l, r) ==
    Node("BinaryExpression", "", operator, 0, FALSE, <<l, r>>, {})
(* MemberExpression: kids = <<object, property>> *)
MemberExpression(obj, prop, computed) ==
    Node("MemberExpression", "", "", 0, computed, <<obj, prop>>, {})
(* UnaryExpression: kids = <<argument>> *)
UnaryExpression(operator, argument) ==
    Node("UnaryExpression", "", operator, 0, FALSE, <<argument>>, {})

LoopTypes ==
    { "ForStatement", "ForInStatement", "ForOfStatement",
      "WhileStatement", "DoWhileStatement" }

(* A loop statement: kids = its non-null children among init, test,       *)
(* update, left, right, body, in that order (visitLoopChildren).           *)
Loop(type, kids) == Node(type, "", "", 0, FALSE, kids, {})

(* Any node type that neither walk gives a visitor for (BlockStatement,    *)
(* IfStatement, ReturnStatement, ExpressionStatement, VariableDeclaration, *)
(* AssignmentExpression, ObjectExpression, ClassDeclaration, ...): the     *)
(* base visitor visits its children in source order.                       *)
Other(type, kids) == Node(type, "", "", 0, FALSE, kids, {})

(* Function-like nodes: kids = <<body>>, text = the text of the body.      *)
FunctionDeclaration(name, body, text) ==
    Node("FunctionDeclaration", name, "", 0, FALSE, <<body>>, text)
FunctionExpression(body, text) ==
    Node("FunctionExpression", "", "", 0, FALSE, <<body>>, text)
ArrowFunctionExpression(body, text) ==
    Node("ArrowFunctionExpression", "", "", 0, FALSE, <<body>>, text)
(* VariableDeclarator: name = id.name ("" when id is a pattern),           *)
(* kids = <<init>> (<<>> when there is no initializer)                     *)
VariableDeclarator(name, inits) ==
    Node("VariableDeclarator", name, "", 0, FALSE, inits, {})
(* MethodDefinition (a method of a class body): name = key.name ("" when   *)
(* the key is no Identifier), kids = <<value>>, a FunctionExpression       *)
MethodDefinition(name, fn) ==
    Node("MethodDefinition", name, "", 0, FALSE, <<fn>>, {})
(* Property (of an object literal): kids = <<value>> *)
Property(name, v) == Node("Property", name, "", 0, FALSE, <<v>>, {})

callee(node)    == node.kids[1]
arguments(node) == Tail(node.kids)
left(node)      == node.kids[1]
right(node)     == node.kids[2]
object(node)    == node.kids[1]
property(node)  == node.kids[2]


-----------------------------------------------------------------------------
(* initFunctionDetails and the FunctionAnalysis of analyzeFunction *)

NoCalls == [n \in {} |-> 0]

initFunctionDetails ==
    [loopCount |-> 0, nestedLoopDepth |-> 0, recursionDetected |-> FALSE,
     recursiveCallCount |-> 0, functionCalls |-> NoCalls,
     divideAndConquer |-> FALSE, logarithmicOperations |-> FALSE,
     linearOperations |-> FALSE, binarySearchPattern |-> FALSE,
     recursiveBinarySearch |-> FALSE]

newAnalysis(name, bodyText) ==
    [name |-> name, body |-> bodyText, complexity |-> O_CONSTANT,
     details |-> initFunctionDetails]

(* functionCalls is a plain object {}: reading a key it does not own finds *)
(* what Object.prototype defines under that name (a function, truthy), so  *)
(* `(functionCalls[calleeName] || 0) + 1` is the string concatenation      *)
(* "function toString() { [native code] }1" there, and the next call site  *)
(* appends another "1". A value >= 1 is the number; the value -k stands    *)
(* for that string with k characters "1" appended. Compared with a number  *)
(* (count >= 2, count > 0) such a string converts to NaN and the           *)
(* comparison is false, as it is for -k.                                   *)
ObjectPrototypeNames == { "toString" }

countCall_noIncrement(functionCalls, calleeName) ==
    IF calleeName \in DOMAIN functionCalls THEN functionCalls
    ELSE [n \in DOMAIN functionCalls \cup {calleeName} |->
            IF n = calleeName THEN 1 ELSE functionCalls[n]]

(* line 176-177 *)
countCall(functionCalls, calleeName) ==
    LET new == IF calleeName \in DOMAIN functionCalls
               THEN (IF functionCalls[calleeName] > 0
                     THEN functionCalls[calleeName] + 1
                     ELSE functionCalls[calleeName] - 1)
               ELSE (IF calleeName \in ObjectPrototypeNames THEN -1 ELSE 1)
    IN  [n \in DOMAIN functionCalls \cup {calleeName} |->
            IF n = calleeName THEN new ELSE functionCalls[n]]

-----------------------------------------------------------------------------
(* Pattern detectors *)

isLiteralNumber(node, n) ==
    node.type = "Literal" /\ node.op = "number" /\ node.value = n

isRecursiveBinarySearch_fourArguments(node, an) ==
    /\ Len(arguments(node)) > 3
    /\ includes(an.body, "Math.floor")
    /\ includes(an.body, "/2")
    /\ includes(an.body, "return")
    /\ ~includes(an.body, "concat")
    /\ ~includes(an.body, "push")
    /\ \E i \in 1..Len(arguments(node)) :
          LET arg == arguments(node)[i]
          IN  /\ arg.type = "BinaryExpression"
              /\ arg.op \in {"+", "-"}
              /\ isLiteralNumber(right(arg), 1)

(* lines 215-233 *)
isRecursiveBinarySearch(node, an) ==
    IF Len(arguments(node)) < 3 THEN FALSE
    ELSE LET hasRequiredPatterns ==
                 /\ includes(an.body, "Math.floor")
                 /\ includes(an.body, "/2")
                 /\ includes(an.body, "return")
                 /\ ~includes(an.body, "concat")
                 /\ ~includes(an.body, "push")
         IN  IF ~hasRequiredPatterns THEN FALSE
             ELSE \E i \in 1..Len(arguments(node)) :
                     LET arg == arguments(node)[i]
                     IN  /\ arg.type = "BinaryExpression"
                         /\ arg.op \in {"+", "-"}
                         /\ isLiteralNumber(right(arg), 1)

(* lines 235-243 *)
isLinearArrayMethod(node) ==
    IF callee(node).type # "MemberExpression"
          \/ property(callee(node)).type # "Identifier"
    THEN FALSE
    ELSE property(callee(node)).name \in
            {"filter", "map", "reduce", "forEach", "find", "some", "every", "flatMap"}

(* lines 245-253 *)
isDivideAndConquerArrayMethod(node) ==
    IF callee(node).type # "MemberExpression"
          \/ property(callee(node)).type # "Identifier"
    THEN FALSE
    ELSE property(callee(node)).name \in {"slice", "concat", "splice"}

(* lines 255-261 *)
isMathOperation(node) ==
    /\ callee(node).type = "MemberExpression"
    /\ object(callee(node)).type = "Identifier"
    /\ object(callee(node)).name = "Math"
    /\ property(callee(node)).type = "Identifier"
    /\ property(callee(node)).name \in {"log", "floor", "ceil"}

isBinarySearchPattern_compoundOnly(st, an, node) ==
    /\ st.inLoop
    /\ ~an.details.recursionDetected
    /\ includes(an.body, "+=") \/ includes(an.body, "-=")
    /\ (includes(an.body, "<") \/ includes(an.body, ">"))
    /\ isLiteralNumber(right(node), 2)

(* lines 292-298 *)
isBinarySearchPattern(st, an, node) ==
    /\ st.inLoop
    /\ ~an.details.recursionDetected
    /\ (includes(an.body, "=") \/ includes(an.body, "+=") \/ includes(an.body, "-="))
    /\ (includes(an.body, "<") \/ includes(an.body, ">"))
    /\ isLiteralNumber(right(node), 2)

(* lines 300-307 *)
isRecursiveBinarySearchPattern(an, node) ==
    /\ an.details.recursionDetected
    /\ isLiteralNumber(right(node), 2)
    /\ (includes(an.body, "<") \/ includes(an.body, ">"))
    /\ includes(an.body, "return")
    /\ (includes(an.body, "mid") \/ includes(an.body, "middle")
          \/ includes(an.body, "left") \/ includes(an.body, "right"))

(* lines 309-311 *)
isComparisonOperator(operator) == operator \in {"<", ">", "<=", ">="}

-----------------------------------------------------------------------------
(* The visitors of createVisitors: each gives the Feature Record after the *)
(* visitor's own statements; the callbacks it makes are Children below.    *)

handleCallExpression_countOnly(node, st, an) ==
    LET d0 == an.details
        calleeName == callee(node).name
    IN  IF callee(node).type = "Identifier" /\ calleeName = st.functionName
        THEN [d0 EXCEPT !.functionCalls = countCall(@, calleeName),
                        !.recursiveCallCount = @ + 1]
        ELSE d0

(* lines 173-204 *)
handleCallExpression(node, st, an) ==
    LET d0 == an.details
        calleeName == callee(node).name
        d1 == IF callee(node).type = "Identifier"
              THEN LET dA == [d0 EXCEPT !.functionCalls = countCall(@, calleeName)]
                   IN  IF calleeName = st.functionName
                       THEN LET dB == [dA EXCEPT !.recursionDetected = TRUE,
                                                 !.recursiveCallCount = @ + 1]
                            IN  IF isRecursiveBinarySearch(node, an)
                                THEN [dB EXCEPT !.recursiveBinarySearch = TRUE,
                                                !.logarithmicOperations = TRUE,
                                                !.divideAndConquer = FALSE]
                                ELSE dB
                       ELSE dA
              ELSE d0
        d2 == IF isLinearArrayMethod(node)
              THEN [d1 EXCEPT !.linearOperations = TRUE,
                              !.divideAndConquer = IF d1.recursionDetected THEN TRUE ELSE @]
              ELSE IF isDivideAndConquerArrayMethod(node) /\ d1.recursionDetected
                   THEN [d1 EXCEPT !.divideAndConquer = TRUE]
                   ELSE d1
    IN  IF isMathOperation(node)
        THEN [d2 EXCEPT !.logarithmicOperations = TRUE]
        ELSE d2

handleBinaryExpression_clearsOnOtherDivisor(node, st, an) ==
    LET d0 == an.details
        d1 == IF node.op = "/" \/ node.op = "/="
              THEN IF d0.recursionDetected
                   THEN [d0 EXCEPT !.divideAndConquer = TRUE]
                   ELSE IF right(node).type = "Literal"
                        THEN IF isBinarySearchPattern(st, an, node)
                             THEN [d0 EXCEPT !.binarySearchPattern = TRUE,
                                             !.logarithmicOperations = TRUE]
                             ELSE [d0 EXCEPT !.divideAndConquer = TRUE]
                        ELSE [d0 EXCEPT !.divideAndConquer = FALSE]
              ELSE d0
    IN  IF isComparisonOperator(node.op) /\ d1.recursionDetected /\ st.inLoop
        THEN [d1 EXCEPT !.divideAndConquer = TRUE]
        ELSE d1

handleBinaryExpression_halvingOnly(node, st, an) ==
    LET d0 == an.details
        d1 == IF node.op = "/" \/ node.op = "/="
              THEN IF d0.recursionDetected
                   THEN [d0 EXCEPT !.divideAndConquer = TRUE]
                   ELSE IF right(node).type = "Literal"
                        THEN IF isBinarySearchPattern(st, an, node)
                             THEN [d0 EXCEPT !.binarySearchPattern = TRUE,
                                             !.logarithmicOperations = TRUE]
                             ELSE IF right(node).value = 2
                                  THEN [d0 EXCEPT !.divideAndConquer = TRUE]
                                  ELSE d0
                        ELSE d0
              ELSE d0
    IN  IF isComparisonOperator(node.op) /\ d1.recursionDetected /\ st.inLoop
        THEN [d1 EXCEPT !.divideAndConquer = TRUE]
        ELSE d1

handleBinaryExpression_searchBranchFirst(node, st, an) ==
    LET d0 == an.details
        d1 == IF node.op = "/" \/ node.op = "/="
              THEN IF right(node).type = "Literal" /\ isRecursiveBinarySearchPattern(an, node)
                   THEN [d0 EXCEPT !.recursiveBinarySearch = TRUE,
                                   !.logarithmicOperations = TRUE,
                                   !.divideAndConquer = FALSE]
                   ELSE IF d0.recursionDetected
                   THEN [d0 EXCEPT !.divideAndConquer = TRUE]
                   ELSE IF right(node).type = "Literal"
                        THEN IF isBinarySearchPattern(st, an, node)
                             THEN [d0 EXCEPT !.binarySearchPattern = TRUE,
                                             !.logarithmicOperations = TRUE]
                             ELSE [d0 EXCEPT !.divideAndConquer = TRUE]
                        ELSE d0
              ELSE d0
    IN  IF isComparisonOperator(node.op) /\ d1.recursionDetected /\ st.inLoop
        THEN [d1 EXCEPT !.divideAndConquer = TRUE]
        ELSE d1


(* lines 263-286 *)
handleBinaryExpression(node, st, an) ==
    LET d0 == an.details
        d1 == IF node.op = "/" \/ node.op = "/="
              THEN IF d0.recursionDetected
                   THEN [d0 EXCEPT !.divideAndConquer = TRUE]
                   ELSE IF right(node).type = "Literal"
                        THEN IF isBinarySearchPattern(st, an, node)
                             THEN [d0 EXCEPT !.binarySearchPattern = TRUE,
                                             !.logarithmicOperations = TRUE]
                             ELSE IF isRecursiveBinarySearchPattern(an, node)
                                  THEN [d0 EXCEPT !.recursiveBinarySearch = TRUE,
                                                  !.logarithmicOperations = TRUE,
                                                  !.divideAndConquer = FALSE]
                                  ELSE [d0 EXCEPT !.divideAndConquer = TRUE]
                        ELSE d0
              ELSE d0
    IN  IF isComparisonOperator(node.op) /\ d1.recursionDetected /\ st.inLoop
        THEN [d1 EXCEPT !.divideAndConquer = TRUE]
        ELSE d1

(* lines 313-323 *)
handleMemberExpression(node, st, an) ==
    LET d0 == an.details
        d1 == IF node.computed /\ d0.recursionDetected
              THEN [d0 EXCEPT !.divideAndConquer = TRUE]
              ELSE d0
    IN  IF /\ property(node).type = "Identifier"
           /\ d1.recursionDetected
           /\ property(node).name \in {"filter", "map", "reduce", "slice", "concat", "splice"}
        THEN [d1 EXCEPT !.divideAndConquer = TRUE]
        ELSE d1

(* lines 329-334 *)
handleUnaryExpression(node, st, an) ==
    LET d0 == an.details
    IN  IF node.op \in {">>>", ">>", "<<"}
             /\ (st.inLoop \/ d0.recursionDetected)
        THEN [d0 EXCEPT !.divideAndConquer = TRUE]
        ELSE d0

max(a, b) == IF a >= b THEN a ELSE b

enterLoop_noMax(depths) ==
    [currentLoopDepth |-> depths.currentLoopDepth + 1,
     maxLoopDepth |-> depths.maxLoopDepth + 1]

(* lines 151-152 of createLoopVisitor *)
enterLoop(depths) ==
    [currentLoopDepth |-> depths.currentLoopDepth + 1,
     maxLoopDepth |-> max(depths.maxLoopDepth, depths.currentLoopDepth + 1)]

(* line 160 of createLoopVisitor *)
exitLoop(depths) ==
    [depths EXCEPT !.currentLoopDepth = @ - 1]


-----------------------------------------------------------------------------
(* The classifier *)

(* lines 436-445 *)
isRecursiveBinarySearchByStructure(an) ==
    /\ an.details.recursionDetected
    /\ (includes(an.body, "/2") \/ includes(an.body, "/ 2"))
    /\ (includes(an.body, "<") \/ includes(an.body, ">")
          \/ includes(an.body, "===") \/ includes(an.body, "=="))
    /\ ~includes(an.body, "concat")
    /\ ~includes(an.body, "push")
    /\ ~includes(an.body, "splice")
    /\ includes(an.body, "return")

(* lines 447-458 *)
isRecursiveLogarithmicAlgorithm(an) ==
    /\ (includes(an.body, "Math.floor") \/ includes(an.body, "Math.ceil")
          \/ includes(an.body, "parseInt") \/ includes(an.body, ">>1")
          \/ includes(an.body, ">>>1"))
    /\ includes(an.body, "/2")
    /\ includes(an.body, "return")
    /\ (includes(an.body, "<") \/ includes(an.body, ">")
          \/ includes(an.body, "===") \/ includes(an.body, "=="))
    /\ an.details.recursiveCallCount <= 2

isDivideAndConquerAlgorithm_loopsIgnored(an) ==
    \/ an.details.divideAndConquer
    \/ includes(an.body, ".filter(")
    \/ includes(an.body, ".map(")
    \/ includes(an.body, ".reduce(")
    \/ includes(an.body, ".slice(")
    \/ \E name \in DOMAIN an.details.functionCalls :
          name # an.name /\ an.details.functionCalls[name] > 0

isDivideAndConquerAlgorithm_selfCallsCount(an) ==
    \/ an.details.divideAndConquer
    \/ an.details.loopCount > 0
    \/ \E name \in DOMAIN an.details.functionCalls :
          an.details.functionCalls[name] > 0

(* lines 460-472 *)
isDivideAndConquerAlgorithm(an) ==
    LET hasArrayMethodCalls ==
            \/ includes(an.body, ".filter(")
            \/ includes(an.body, ".map(")
            \/ includes(an.body, ".reduce(")
            \/ includes(an.body, ".slice(")
    IN  \/ an.details.divideAndConquer
        \/ hasArrayMethodCalls
        \/ an.details.loopCount > 0
        \/ \E name \in DOMAIN an.details.functionCalls :
              name # an.name /\ an.details.functionCalls[name] > 0

(* lines 474-477 *)
hasMultipleRecursiveCalls(an) ==
    \E name \in DOMAIN an.details.functionCalls :
        /\ name = an.name
        /\ an.details.functionCalls[name] >= 2
        /\ ~an.details.recursiveBinarySearch

isFactorialComplexity_anyCallee(an, nestedLoopDepth) ==
    Cardinality(DOMAIN an.details.functionCalls) > 0


(* lines 479-481 *)
isFactorialComplexity(an, nestedLoopDepth) ==
    nestedLoopDepth > 0 /\ Cardinality(DOMAIN an.details.functionCalls) > 2

determineComplexity_noStructureRule(an) ==
    LET d == an.details
    IN  IF d.recursiveBinarySearch THEN O_LOGARITHMIC
        ELSE IF d.recursionDetected
        THEN IF isRecursiveLogarithmicAlgorithm(an) THEN O_LOGARITHMIC
             ELSE IF isDivideAndConquerAlgorithm(an) THEN O_LINEARITHMIC
             ELSE O_EXPONENTIAL
        ELSE IF d.nestedLoopDepth >= 3 THEN O_CUBIC
        ELSE IF d.nestedLoopDepth = 2 THEN O_QUADRATIC
        ELSE IF d.binarySearchPattern THEN O_LOGARITHMIC
        ELSE IF d.divideAndConquer /\ d.loopCount > 0 THEN O_LINEARITHMIC
        ELSE IF d.loopCount > 0 \/ d.linearOperations THEN O_LINEAR
        ELSE IF d.divideAndConquer \/ d.logarithmicOperations THEN O_LOGARITHMIC
        ELSE O_CONSTANT

determineComplexity_linearFallback(an) ==
    LET d == an.details
    IN  IF d.recursiveBinarySearch THEN O_LOGARITHMIC
        ELSE IF isRecursiveBinarySearchByStructure(an) THEN O_LOGARITHMIC
        ELSE IF d.recursionDetected
        THEN IF isRecursiveLogarithmicAlgorithm(an) THEN O_LOGARITHMIC
             ELSE IF isDivideAndConquerAlgorithm(an) THEN O_LINEARITHMIC
             ELSE IF hasMultipleRecursiveCalls(an) THEN O_EXPONENTIAL
             ELSE IF isFactorialComplexity(an, d.nestedLoopDepth) THEN O_FACTORIAL
             ELSE O_LINEAR
        ELSE IF d.nestedLoopDepth >= 3 THEN O_CUBIC
        ELSE IF d.nestedLoopDepth = 2 THEN O_QUADRATIC
        ELSE IF d.binarySearchPattern THEN O_LOGARITHMIC
        ELSE IF d.divideAndConquer /\ d.loopCount > 0 THEN O_LINEARITHMIC
        ELSE IF d.loopCount > 0 \/ d.linearOperations THEN O_LINEAR
        ELSE IF d.divideAndConquer \/ d.logarithmicOperations THEN O_LOGARITHMIC
        ELSE O_CONSTANT

(* lines 372-434 *)
determineComplexity(an) ==
    LET d == an.details
    IN  IF d.recursiveBinarySearch THEN O_LOGARITHMIC
        ELSE IF isRecursiveBinarySearchByStructure(an) THEN O_LOGARITHMIC
        ELSE IF d.recursionDetected
        THEN IF isRecursiveLogarithmicAlgorithm(an) THEN O_LOGARITHMIC
             ELSE IF isDivideAndConquerAlgorithm(an) THEN O_LINEARITHMIC
             ELSE IF hasMultipleRecursiveCalls(an) THEN O_EXPONENTIAL
             ELSE IF isFactorialComplexity(an, d.nestedLoopDepth) THEN O_FACTORIAL
             ELSE O_EXPONENTIAL
        ELSE IF d.nestedLoopDepth >= 3 THEN O_CUBIC
        ELSE IF d.nestedLoopDepth = 2 THEN O_QUADRATIC
        ELSE IF d.binarySearchPattern THEN O_LOGARITHMIC
        ELSE IF d.divideAndConquer /\ d.loopCount > 0 THEN O_LINEARITHMIC
        ELSE IF d.loopCount > 0 \/ d.linearOperations THEN O_LINEAR
        ELSE IF d.divideAndConquer \/ d.logarithmicOperations THEN O_LOGARITHMIC
        ELSE O_CONSTANT


-----------------------------------------------------------------------------
(* The two walks. An agenda (outer, inner) is the sequence of nodes whose  *)
(* visit is still due, in the order the recursive descent reaches them;    *)
(* visiting a node replaces it by the nodes its visitor calls back on.     *)

(* the point where createLoopVisitor resumes after visitLoopChildren;      *)
(* computed holds oldInLoop                                                *)
LoopExit(oldInLoop) == Node("createLoopVisitor:exit", "", "", 0, oldInLoop, <<>>, {})

Reverse(seq) == [i \in 1..Len(seq) |-> seq[Len(seq) + 1 - i]]

(* lines 206-212: the callbacks of handleCallExpression *)
callbacksOfCall(node) ==
    arguments(node) \o
    (IF callee(node).type # "Identifier" THEN <<callee(node)>> ELSE <<>>)

(* The children the base visitors of acorn-walk visit. A MemberExpression  *)
(* property is visited only when computed; DoWhileStatement visits its     *)
(* body before its test; Identifier and Literal have no children.          *)
baseChildren(node) ==
    IF node.type = "MemberExpression"
    THEN (IF node.computed THEN node.kids ELSE <<object(node)>>)
    ELSE IF node.type = "DoWhileStatement" THEN Reverse(node.kids)
    ELSE node.kids

FunctionValueTypes == { "FunctionExpression", "ArrowFunctionExpression" }

(* The node types createFunctionVisitors gives a visitor for *)
LocatorTypes ==
    { "FunctionDeclaration", "VariableDeclarator", "MethodDefinition",
      "ArrowFunctionExpression" }

(* The node types createVisitors gives a visitor for *)
ExtractorTypes ==
    LoopTypes \cup
    { "CallExpression", "BinaryExpression", "MemberExpression", "UnaryExpression" }

(* What the input still hides: a node of type "Hole" stands for a subtree  *)
(* that is revealed when the walk reaches it (see HoleChoices).            *)
Hole == Node("Hole", "", "", 0, FALSE, <<>>, {})


-----------------------------------------------------------------------------
(* Inputs: the syntax trees acorn.parse builds for src/test-algorithms.js  *)

Id(name)            == Identifier(name)
Num(n)              == Literal(n)
Block(stmts)        == Other("BlockStatement", stmts)
Program(stmts)      == Other("Program", stmts)
ExprStmt(e)         == Other("ExpressionStatement", <<e>>)
Return1(e)          == Other("ReturnStatement", <<e>>)
Return0             == Other("ReturnStatement", <<>>)
If(test, cons)      == Other("IfStatement", <<test, cons>>)
IfElse(t, c, a)     == Other("IfStatement", <<t, c, a>>)
Var(name, init)     == Other("VariableDeclaration", <<VariableDeclarator(name, <<init>>)>>)
Array(elems)        == Other("ArrayExpression", elems)
Spread(e)           == Other("SpreadElement", <<e>>)
Update(e)           == Other("UpdateExpression", <<e>>)
Assign(target, e)   == Other("AssignmentExpression", <<target, e>>)
Logical(l, r)       == Other("LogicalExpression", <<l, r>>)
Dot(obj, prop)      == MemberExpression(Id(obj), Id(prop), FALSE)
Index(obj, idx)     == MemberExpression(Id(obj), idx, TRUE)
Call(name, args)    == CallExpression(Id(name), args)
Method(obj, prop, args) == CallExpression(Dot(obj, prop), args)

(* for (let i = from; i < arr.length; i++) body *)
ForIndex(i, from, arr, body) ==
    Loop("ForStatement",
         << Var(i, Num(from)),
            BinaryExpression("<", Id(i), Dot(arr, "length")),
            Update(Id(i)),
            body >>)

(* test-algorithms.js lines 4-22 *)
quickSort ==
    FunctionDeclaration("quickSort",
      Block(<<
        If(BinaryExpression("<=", Dot("arr", "length"), Num(1)),
           Block(<<Return1(Id("arr"))>>)),
        Var("pivot", Index("arr", Num(0))),
        Var("left", Array(<<>>)),
        Var("right", Array(<<>>)),
        ForIndex("i", 1, "arr",
          Block(<<
            IfElse(BinaryExpression("<", Index("arr", Id("i")), Id("pivot")),
                   Block(<<ExprStmt(Method("left", "push", <<Index("arr", Id("i"))>>))>>),
                   Block(<<ExprStmt(Method("right", "push", <<Index("arr", Id("i"))>>))>>))
          >>)),
        Return1(Array(<< Spread(Call("quickSort", <<Id("left")>>)),
                         Id("pivot"),
                         Spread(Call("quickSort", <<Id("right")>>)) >>))
      >>),
      {"return", "=", "<", "push", "left", "right"})

(* test-algorithms.js lines 25-28 *)
fibonacci ==
    FunctionDeclaration("fibonacci",
      Block(<<
        If(BinaryExpression("<=", Id("n"), Num(1)), Return1(Id("n"))),
        Return1(BinaryExpression("+",
                  Call("fibonacci", <<BinaryExpression("-", Id("n"), Num(1))>>),
                  Call("fibonacci", <<BinaryExpression("-", Id("n"), Num(2))>>)))
      >>),
      {"return", "=", "<"})

(* test-algorithms.js lines 34-45 *)
generatePermutations ==
    FunctionDeclaration("generatePermutations",
      Block(<<
        If(BinaryExpression("===", Dot("remaining", "length"), Num(0)),
           Block(<< ExprStmt(Method("result", "push", <<Array(<<Spread(Id("current"))>>)>>)),
                    Return0 >>)),
        ForIndex("i", 0, "remaining",
          Block(<<
            Var("newCurrent", Array(<<Spread(Id("current")), Index("remaining", Id("i"))>>)),
            Var("newRemaining",
                Array(<< Spread(Method("remaining", "slice", <<Num(0), Id("i")>>)),
                         Spread(Method("remaining", "slice",
                                       <<BinaryExpression("+", Id("i"), Num(1))>>)) >>)),
            ExprStmt(Call("generatePermutations", <<Id("newCurrent"), Id("newRemaining")>>))
          >>))
      >>),
      {"return", "=", "==", "===", "<", "push", ".slice("})

(* test-algorithms.js lines 31-49 *)
permutations ==
    FunctionDeclaration("permutations",
      Block(<<
        Var("result", Array(<<>>)),
        generatePermutations,
        ExprStmt(Call("generatePermutations", <<Array(<<>>), Id("arr")>>)),
        Return1(Id("result"))
      >>),
      {"return", "=", "==", "===", "<", "push", ".slice("})

(* test-algorithms.js lines 52-54 *)
constantTime ==
    FunctionDeclaration("constantTime",
      Block(<<Return1(BinaryExpression("*", Id("n"), Num(2)))>>),
      {"return"})

(* test-algorithms.js lines 57-63 *)
linearTime ==
    FunctionDeclaration("linearTime",
      Block(<<
        Var("sum", Num(0)),
        ForIndex("i", 0, "arr",
          Block(<<ExprStmt(Assign(Id("sum"), Index("arr", Id("i"))))>>)),
        Return1(Id("sum"))
      >>),
      {"return", "=", "+=", "<"})

(* test-algorithms.js lines 66-74 *)
quadraticTime ==
    FunctionDeclaration("quadraticTime",
      Block(<<
        Var("result", Array(<<>>)),
        ForIndex("i", 0, "arr",
          Block(<<
            ForIndex("j", 0, "arr",
              Block(<<ExprStmt(Method("result", "push",
                        <<BinaryExpression("*", Index("arr", Id("i")),
                                                Index("arr", Id("j")))>>))>>))
          >>)),
        Return1(Id("result"))
      >>),
      {"return", "=", "<", "push"})

(* test-algorithms.js lines 77-89 *)
binarySearch ==
    FunctionDeclaration("binarySearch",
      Block(<<
        Var("left", Num(0)),
        Var("right", BinaryExpression("-", Dot("arr", "length"), Num(1))),
        Loop("WhileStatement", <<
          BinaryExpression("<=", Id("left"), Id("right")),
          Block(<<
            Var("mid", Method("Math", "floor",
                  <<BinaryExpression("/",
                      BinaryExpression("+", Id("left"), Id("right")), Num(2))>>)),
            If(BinaryExpression("===", Index("arr", Id("mid")), Id("target")),
               Return1(Id("mid"))),
            IfElse(BinaryExpression("<", Index("arr", Id("mid")), Id("target")),
                   ExprStmt(Assign(Id("left"), BinaryExpression("+", Id("mid"), Num(1)))),
                   ExprStmt(Assign(Id("right"), BinaryExpression("-", Id("mid"), Num(1)))))
          >>) >>),
        Return1(UnaryExpression("-", Num(1)))
      >>),
      {"return", "=", "==", "===", "<", "Math.floor", "/ 2", "mid", "left", "right"})

(* test-algorithms.js lines 92-100 *)
mergeSort ==
    FunctionDeclaration("mergeSort",
      Block(<<
        If(BinaryExpression("<=", Dot("arr", "length"), Num(1)), Return1(Id("arr"))),
        Var("mid", Method("Math", "floor",
              <<BinaryExpression("/", Dot("arr", "length"), Num(2))>>)),
        Var("left", Call("mergeSort", <<Method("arr", "slice", <<Num(0), Id("mid")>>)>>)),
        Var("right", Call("mergeSort", <<Method("arr", "slice", <<Id("mid")>>)>>)),
        Return1(Call("merge", <<Id("left"), Id("right")>>))
      >>),
      {"return", "=", "<", "Math.floor", "/ 2", "mid", "left", "right", ".slice("})

(* test-algorithms.js lines 102-117 *)
merge ==
    FunctionDeclaration("merge",
      Block(<<
        Var("result", Array(<<>>)),
        Other("VariableDeclaration",
              << VariableDeclarator("i", <<Num(0)>>), VariableDeclarator("j", <<Num(0)>>) >>),
        Loop("WhileStatement", <<
          Logical(BinaryExpression("<", Id("i"), Dot("left", "length")),
                  BinaryExpression("<", Id("j"), Dot("right", "length"))),
          Block(<<
            IfElse(BinaryExpression("<", Index("left", Id("i")), Index("right", Id("j"))),
                   Block(<< ExprStmt(Method("result", "push", <<Index("left", Id("i"))>>)),
                            ExprStmt(Update(Id("i"))) >>),
                   Block(<< ExprStmt(Method("result", "push", <<Index("right", Id("j"))>>)),
                            ExprStmt(Update(Id("j"))) >>))
          >>) >>),
        Return1(Array(<< Spread(Id("result")),
                         Spread(Method("left", "slice", <<Id("i")>>)),
                         Spread(Method("right", "slice", <<Id("j")>>)) >>))
      >>),
      {"return", "=", "<", "push", "left", "right", ".slice("})

(* Small functions, one per complexity class the classifier can give *)

(* function constant() {} *)
tinyConstant ==
    FunctionDeclaration("constant", Block(<<>>), {})
(* function halve(n) { return n / 2; } *)
tinyLogarithmic ==
    FunctionDeclaration("halve",
      Block(<<Return1(BinaryExpression("/", Id("n"), Num(2)))>>), {"return", "/ 2"})
(* function linear() { for (;;) {} } *)
tinyLinear ==
    FunctionDeclaration("linear", Block(<<Loop("ForStatement", <<Block(<<>>)>>)>>), {})
(* function thirds(n) { while (n) { n = n / 3; } } *)
tinyLinearithmic ==
    FunctionDeclaration("thirds",
      Block(<<Loop("WhileStatement",
                <<Id("n"),
                  Block(<<ExprStmt(Assign(Id("n"),
                            BinaryExpression("/", Id("n"), Num(3))))>>)>>)>>),
      {"="})
(* function quadratic() { for (;;) for (;;) {} } *)
tinyQuadratic ==
    FunctionDeclaration("quadratic",
      Block(<<Loop("ForStatement", <<Loop("ForStatement", <<Block(<<>>)>>)>>)>>), {})
(* function cubic() { for (;;) for (;;) for (;;) {} } *)
tinyCubic ==
    FunctionDeclaration("cubic",
      Block(<<Loop("ForStatement",
                <<Loop("ForStatement", <<Loop("ForStatement", <<Block(<<>>)>>)>>)>>)>>), {})
(* function forever() { forever(); } *)
tinyExponential ==
    FunctionDeclaration("forever", Block(<<ExprStmt(Call("forever", <<>>))>>), {})

TinyItems ==
    { "constant", "halve", "linear", "thirds", "quadratic", "cubic", "forever" }

TestItems ==
    { "quickSort", "fibonacci", "permutations", "constantTime", "linearTime",
      "quadraticTime", "binarySearch", "mergeSort", "merge" }

-----------------------------------------------------------------------------
(* Function bodies that are nests of loops. A forest is a sequence of      *)
(* trees and a tree is the forest of the loops directly inside it.         *)

MaxLoops == 4

RECURSIVE ForestsOfSize(_)
ForestsOfSize(n) ==
    IF n = 0 THEN { <<>> }
    ELSE UNION { { <<t>> \o rest : t \in ForestsOfSize(k - 1),
                                   rest \in ForestsOfSize(n - k) } : k \in 1..n }

LoopForests == UNION { ForestsOfSize(n) : n \in 0..MaxLoops }

LoopTypeAt(i) ==
    CASE i % 5 = 0 -> "ForStatement"
      [] i % 5 = 1 -> "WhileStatement"
      [] i % 5 = 2 -> "ForOfStatement"
      [] i % 5 = 3 -> "DoWhileStatement"
      [] OTHER     -> "ForInStatement"

(* the children visitLoopChildren finds on a loop of that type *)
LoopOf(type, body) ==
    CASE type = "ForStatement"     -> Loop(type, <<body>>)
      [] type = "WhileStatement"   -> Loop(type, <<Id("c"), body>>)
      [] type = "DoWhileStatement" -> Loop(type, <<Id("c"), body>>)
      [] OTHER                     -> Loop(type, <<Id("k"), Id("o"), body>>)

RECURSIVE LoopNest(_, _)
LoopNest(forest, depth) ==
    [i \in 1..Len(forest) |->
        LoopOf(LoopTypeAt(depth + i), Block(LoopNest(forest[i], depth + 1)))]

-----------------------------------------------------------------------------
(* Other shapes of function-like definitions *)

OneLoop == Loop("ForStatement", <<Block(<<>>)>>)

(* function outer(n) {                                                     *)
(*   function inner(k) { for (;;) { helper(k); } }                         *)
(*   return inner(n);                                                      *)
(* }                                                                       *)
nestedFunction ==
    FunctionDeclaration("outer",
      Block(<<
        FunctionDeclaration("inner",
          Block(<<Loop("ForStatement",
                    <<Block(<<ExprStmt(Call("helper", <<Id("k")>>))>>)>>)>>),
          {}),
        Return1(Call("inner", <<Id("n")>>))
      >>),
      {"return"})

(* class Queue { drain() { for (;;) {} } } *)
classMethod ==
    Other("ClassDeclaration",
      <<Other("ClassBody",
          <<MethodDefinition("drain", FunctionExpression(Block(<<OneLoop>>), {}))>>)>>)

(* class Queue { "drain all"() { for (;;) {} } } *)
classMethodStringKey ==
    Other("ClassDeclaration",
      <<Other("ClassBody",
          <<MethodDefinition("", FunctionExpression(Block(<<OneLoop>>), {}))>>)>>)

(* ({ drain() { for (;;) {} } }); *)
objectMethod ==
    ExprStmt(Other("ObjectExpression",
      <<Property("drain", FunctionExpression(Block(<<OneLoop>>), {}))>>))

(* const queue = { drain() { for (;;) {} } }; *)
objectMethodInVariable ==
    Var("queue", Other("ObjectExpression",
      <<Property("drain", FunctionExpression(Block(<<OneLoop>>), {}))>>))

(* const twice = function (n) { return n * 2; }; *)
variableFunction ==
    Var("twice",
        FunctionExpression(
          Block(<<Return1(BinaryExpression("*", Id("n"), Num(2)))>>), {"return"}))

(* const twice = (n) => n * 2; *)
variableArrow ==
    Var("twice",
        ArrowFunctionExpression(BinaryExpression("*", Id("n"), Num(2)), {}))

(* items.forEach((item) => { for (;;) {} }); *)
arrowCallback ==
    ExprStmt(Method("items", "forEach",
      <<ArrowFunctionExpression(Block(<<OneLoop>>), {})>>))

(* (function () { function inner() { for (;;) {} } })(); *)
iife ==
    ExprStmt(CallExpression(
      FunctionExpression(
        Block(<<FunctionDeclaration("inner", Block(<<OneLoop>>), {})>>), {}),
      <<>>))

(* export default function () { for (;;) {} } *)
anonymousDeclaration ==
    Other("ExportDefaultDeclaration",
      <<FunctionDeclaration("", Block(<<OneLoop>>), {})>>)

(* for (;;) { -total; } outside any function *)
topLevelLoop ==
    Loop("ForStatement", <<Block(<<ExprStmt(UnaryExpression("-", Id("total")))>>)>>)

(* function visit(n) { for (;;) { open(n); close(n); visit(n); } } *)
loopingRecursion ==
    FunctionDeclaration("visit",
      Block(<<Loop("ForStatement",
                <<Block(<<ExprStmt(Call("open", <<Id("n")>>)),
                          ExprStmt(Call("close", <<Id("n")>>)),
                          ExprStmt(Call("visit", <<Id("n")>>))>>)>>)>>),
      {})

(* function fib(n) {                                                       *)
(*   if (n <= 1) return n;                                                 *)
(*   const value = fib(n - 1) + fib(n - 2);                                *)
(*   seen[n] = value;                                                      *)
(*   return value;                                                         *)
(* }                                                                       *)
recordedFibonacci ==
    FunctionDeclaration("fib",
      Block(<<
        If(BinaryExpression("<=", Id("n"), Num(1)), Return1(Id("n"))),
        Var("value", BinaryExpression("+",
                       Call("fib", <<BinaryExpression("-", Id("n"), Num(1))>>),
                       Call("fib", <<BinaryExpression("-", Id("n"), Num(2))>>))),
        ExprStmt(Assign(Index("seen", Id("n")), Id("value"))),
        Return1(Id("value"))
      >>),
      {"return", "=", "<"})

ShapeItems ==
    { "recordedFibonacci", "nestedFunction", "classMethod", "classMethodStringKey", "objectMethod",
      "objectMethodInVariable", "variableFunction", "variableArrow",
      "arrowCallback", "iife", "anonymousDeclaration", "topLevelLoop",
      "loopingRecursion" }

-----------------------------------------------------------------------------
(* The input. code.source is the sequence of the text's top-level          *)
(* statements, each named by [item, shape, text]; parse is acorn.parse.    *)

Item(name)      == [item |-> name, shape |-> <<>>, text |-> {}]
LoopItem(forest) == [item |-> "loops", shape |-> forest, text |-> {}]

Statement(d) ==
    CASE d.item = "quickSort"      -> quickSort
      [] d.item = "fibonacci"      -> fibonacci
      [] d.item = "permutations"   -> permutations
      [] d.item = "constantTime"   -> constantTime
      [] d.item = "linearTime"     -> linearTime
      [] d.item = "quadraticTime"  -> quadraticTime
      [] d.item = "binarySearch"   -> binarySearch
      [] d.item = "mergeSort"      -> mergeSort
      [] d.item = "merge"          -> merge
      [] d.item = "constant"       -> tinyConstant
      [] d.item = "halve"          -> tinyLogarithmic
      [] d.item = "linear"         -> tinyLinear
      [] d.item = "thirds"         -> tinyLinearithmic
      [] d.item = "quadratic"      -> tinyQuadratic
      [] d.item = "cubic"          -> tinyCubic
      [] d.item = "forever"        -> tinyExponential
      [] d.item = "recordedFibonacci" -> recordedFibonacci
      [] d.item = "nestedFunction" -> nestedFunction
      [] d.item = "classMethod"    -> classMethod
      [] d.item = "classMethodStringKey" -> classMethodStringKey
      [] d.item = "objectMethod"   -> objectMethod
      [] d.item = "objectMethodInVariable" -> objectMethodInVariable
      [] d.item = "variableFunction" -> variableFunction
      [] d.item = "variableArrow"  -> variableArrow
      [] d.item = "arrowCallback"  -> arrowCallback
      [] d.item = "iife"           -> iife
      [] d.item = "anonymousDeclaration" -> anonymousDeclaration
      [] d.item = "topLevelLoop"   -> topLevelLoop
      [] d.item = "loopingRecursion" -> loopingRecursion
      [] d.item = "loops"          ->
            FunctionDeclaration("loops", Block(LoopNest(d.shape, 0)), d.text)
      [] OTHER                     -> FunctionDeclaration("f", Hole, d.text)

(* acorn.parse(code, ...) of a text that parses *)
parse(source) == Program([i \in 1..Len(source) |-> Statement(source[i])])

Source(items) == [parses |-> TRUE, message |-> <<>>, source |-> items]


-----------------------------------------------------------------------------
(* An input whose one function body is revealed as the walk reaches it.   *)
(* A Hole stands for the rest of a list of sibling subtrees: it is either  *)
(* empty (revealed as a leaf, after which nothing follows) or a node of    *)
(* HoleNodes followed by another Hole. The nodes that neither walk has a   *)
(* visitor for (a sequence or array expression, a block, a function        *)
(* expression called in place) wrap any such list without a trace, so a   *)
(* Hole may stand wherever one child is expected. A node is revealed only  *)
(* if the body text can hold its operators and names, and as long as the   *)
(* budget of nodes lasts.                                                  *)

MaxNodes == 3

HoleCallees == { "f", "g", "h", "toString" }

HoleTexts ==
    { {},
      {"return", "=", "<"},
      {"return", "=", "<", "Math.floor", "/2"},
      {"return", "<", ">", "/ 2", "mid", "push"},
      {".slice(", "=", "<"} }

HoleNodes ==
    { Loop("ForStatement", <<Hole>>),
      Loop("WhileStatement", <<Id("c"), Hole>>),
      Call("f", <<Id("a"), Id("lo"), BinaryExpression("-", Id("m"), Num(1))>>),
      Call("f", <<Id("a"), Id("lo"), Id("hi")>>),
      CallExpression(Dot("a", "map"), <<Hole>>),
      CallExpression(Dot("a", "slice"), <<Hole>>),
      CallExpression(Dot("a", "push"), <<Hole>>),
      CallExpression(Dot("Math", "floor"), <<Hole>>),
      BinaryExpression("/", Hole, Num(2)),
      BinaryExpression("/", Hole, Num(3)),
      BinaryExpression("/", Hole, Id("d")),
      BinaryExpression("<", Hole, Id("n")),
      BinaryExpression(">>", Hole, Num(1)),
      MemberExpression(Hole, Id("i"), TRUE),
      MemberExpression(Hole, Id("slice"), FALSE),
      MemberExpression(Hole, Id("length"), FALSE),
      UnaryExpression("-", Hole) }
    \cup { Call(name, args) : name \in HoleCallees, args \in { <<>>, <<Hole>> } }

(* the needles a node of HoleNodes puts into the text around it *)
needlesOf(node) ==
    IF node.type = "BinaryExpression" /\ node.op = "<" THEN {"<"}
    ELSE IF node.type = "BinaryExpression" /\ node.op = ">>" THEN {">"}
    ELSE IF node.type = "CallExpression" /\ callee(node).type = "MemberExpression"
              /\ property(callee(node)).name = "push" THEN {"push"}
    ELSE {}

HoleChoices(text, budget) ==
    IF budget = 0 THEN { Id("x") }
    ELSE { Id("x") } \cup { node \in HoleNodes : needlesOf(node) \subseteq text }

Reveal(item, text, budget) ==
    IF item.type = "Hole" THEN HoleChoices(text, budget) ELSE {item}

Spend(item, node, budget) ==
    IF item.type = "Hole" /\ node.kids # <<>> THEN budget - 1 ELSE budget

(* what follows a revealed node in the list the Hole stood for *)
Rest(item, node) ==
    IF item.type = "Hole" /\ node.kids # <<>> THEN <<Hole>> ELSE <<>>

HoleItem(text) == [item |-> "hole", shape |-> <<>>, text |-> text]

-----------------------------------------------------------------------------
(* analyzeCode *)

(* lines 85-88 *)
returnValue(overall, fns) ==
    [overallComplexity |-> overall, functions |-> fns, error |-> <<>>]

catchBlock_partial(message) ==
    [overallComplexity |-> overallComplexity, functions |-> functions,
     error |-> <<"Error parsing code: ">> \o message]

(* lines 90-96; a string is the sequence of its non-empty pieces *)
catchBlock(message) ==
    [overallComplexity |-> O_CONSTANT, functions |-> <<>>,
     error |-> <<"Error parsing code: ">> \o message]

NoResult == [overallComplexity |-> O_CONSTANT, functions |-> <<>>, error |-> <<>>]

NoAnalysis == newAnalysis("", {})

(* lines 43-50: acorn.parse returns the tree *)
Parse ==
    /\ pc = "start"
    /\ code.parses
    /\ pc' = "locate"
    /\ outer' = <<parse(code.source)>>
    /\ functions' = <<>>
    /\ overallComplexity' = O_CONSTANT
    /\ UNCHANGED <<code, inner, analysis, loopDepths, state, result, fuel>>

(* lines 43, 90-96: acorn.parse throws a SyntaxError *)
ParseError ==
    /\ pc = "start"
    /\ ~code.parses
    /\ result' = catchBlock(code.message)
    /\ pc' = "done"
    /\ UNCHANGED <<code, outer, inner, analysis, loopDepths, state, functions,
                   overallComplexity, fuel>>

analyzeFunction_keepsDepths(name, node, bodyText) ==
    /\ analysis' = newAnalysis(name, bodyText)
    /\ state' = [functionName |-> name, inLoop |-> FALSE]
    /\ inner' = <<node>>
    /\ outer' = Tail(outer)
    /\ pc' = "walk"
    /\ UNCHANGED <<code, loopDepths, functions, overallComplexity, result, fuel>>

(* lines 52-71: analyzeFunction(name, node) up to the start of its walk *)
analyzeFunction(name, node, bodyText) ==
    /\ analysis' = newAnalysis(name, bodyText)
    /\ loopDepths' = [currentLoopDepth |-> 0, maxLoopDepth |-> 0]
    /\ state' = [functionName |-> name, inLoop |-> FALSE]
    /\ inner' = <<node>>
    /\ outer' = Tail(outer)
    /\ pc' = "walk"
    /\ UNCHANGED <<code, functions, overallComplexity, result, fuel>>

(* the visitor returns without a callback: the subtree is not walked *)
skipSubtree ==
    /\ outer' = Tail(outer)
    /\ UNCHANGED <<code, pc, inner, analysis, loopDepths, state, functions,
                   overallComplexity, result, fuel>>

(* lines 341-345 *)
VisitFunctionDeclaration ==
    /\ pc = "locate" /\ outer # <<>>
    /\ LET node == Head(outer)
       IN  /\ node.type = "FunctionDeclaration"
           /\ IF node.name # ""
              THEN analyzeFunction(node.name, node.kids[1], node.text)
              ELSE skipSubtree

(* lines 347-353 *)
VisitVariableDeclarator ==
    /\ pc = "locate" /\ outer # <<>>
    /\ LET node == Head(outer)
       IN  /\ node.type = "VariableDeclarator"
           /\ IF /\ node.name # ""
                 /\ node.kids # <<>>
                 /\ node.kids[1].type \in FunctionValueTypes
              THEN analyzeFunction(node.name, node.kids[1].kids[1], node.kids[1].text)
              ELSE skipSubtree

(* lines 355-359 *)
VisitMethodDefinition ==
    /\ pc = "locate" /\ outer # <<>>
    /\ LET node == Head(outer)
       IN  /\ node.type = "MethodDefinition"
           /\ IF node.name # ""
              THEN analyzeFunction(node.name, node.kids[1].kids[1], node.kids[1].text)
              ELSE skipSubtree

(* lines 361-368: acorn sets no `parent` on a node, so node.parent?.type   *)
(* is undefined and the else branch runs                                   *)
VisitArrowFunctionExpression ==
    /\ pc = "locate" /\ outer # <<>>
    /\ LET node == Head(outer)
       IN  /\ node.type = "ArrowFunctionExpression"
           /\ analyzeFunction("anonymous", node.kids[1], node.text)

(* line 83: every other node type is walked by the base visitor *)
LocateBase ==
    /\ pc = "locate" /\ outer # <<>>
    /\ LET node == Head(outer)
       IN  /\ node.type \notin LocatorTypes
           /\ outer' = baseChildren(node) \o Tail(outer)
    /\ UNCHANGED <<code, pc, inner, analysis, loopDepths, state, functions,
                   overallComplexity, result, fuel>>

(* lines 124-126, 173-213 *)
VisitCallExpression ==
    /\ pc = "walk" /\ inner # <<>>
    /\ \E node \in Reveal(Head(inner), analysis.body, fuel) :
          /\ node.type = "CallExpression"
          /\ analysis' = [analysis EXCEPT !.details = handleCallExpression(node, state, analysis)]
          /\ inner' = callbacksOfCall(node) \o Rest(Head(inner), node) \o Tail(inner)
          /\ fuel' = Spend(Head(inner), node, fuel)
    /\ UNCHANGED <<code, pc, outer, loopDepths, state, functions,
                   overallComplexity, result>>

(* lines 128-132, 149-157: a loop visitor up to visitLoopChildren *)
VisitLoop ==
    /\ pc = "walk" /\ inner # <<>>
    /\ \E node \in Reveal(Head(inner), analysis.body, fuel) :
          /\ node.type \in LoopTypes
          /\ analysis' = [analysis EXCEPT !.details.loopCount = @ + 1]
          /\ loopDepths' = enterLoop(loopDepths)
          /\ state' = [state EXCEPT !.inLoop = TRUE]
          /\ inner' = node.kids \o <<LoopExit(state.inLoop)>>
                      \o Rest(Head(inner), node) \o Tail(inner)
          /\ fuel' = Spend(Head(inner), node, fuel)
    /\ UNCHANGED <<code, pc, outer, functions, overallComplexity, result>>

LeaveLoop_clearsInLoop ==
    /\ pc = "walk" /\ inner # <<>>
    /\ Head(inner).type = "createLoopVisitor:exit"
    /\ state' = [state EXCEPT !.inLoop = FALSE]
    /\ loopDepths' = exitLoop(loopDepths)
    /\ inner' = Tail(inner)
    /\ UNCHANGED <<code, pc, outer, analysis, functions, overallComplexity,
                   result, fuel>>


(* lines 159-160: the loop visitor after visitLoopChildren *)
LeaveLoop ==
    /\ pc = "walk" /\ inner # <<>>
    /\ Head(inner).type = "createLoopVisitor:exit"
    /\ state' = [state EXCEPT !.inLoop = Head(inner).computed]
    /\ loopDepths' = exitLoop(loopDepths)
    /\ inner' = Tail(inner)
    /\ UNCHANGED <<code, pc, outer, analysis, functions, overallComplexity,
                   result, fuel>>

(* lines 134-136, 263-290 *)
VisitBinaryExpression ==
    /\ pc = "walk" /\ inner # <<>>
    /\ \E node \in Reveal(Head(inner), analysis.body, fuel) :
          /\ node.type = "BinaryExpression"
          /\ analysis' = [analysis EXCEPT !.details = handleBinaryExpression(node, state, analysis)]
          /\ inner' = <<left(node), right(node)>> \o Rest(Head(inner), node) \o Tail(inner)
          /\ fuel' = Spend(Head(inner), node, fuel)
    /\ UNCHANGED <<code, pc, outer, loopDepths, state, functions,
                   overallComplexity, result>>

(* lines 138-140, 313-327 *)
VisitMemberExpression ==
    /\ pc = "walk" /\ inner # <<>>
    /\ \E node \in Reveal(Head(inner), analysis.body, fuel) :
          /\ node.type = "MemberExpression"
          /\ analysis' = [analysis EXCEPT !.details = handleMemberExpression(node, state, analysis)]
          /\ inner' = <<object(node), property(node)>> \o Rest(Head(inner), node) \o Tail(inner)
          /\ fuel' = Spend(Head(inner), node, fuel)
    /\ UNCHANGED <<code, pc, outer, loopDepths, state, functions,
                   overallComplexity, result>>

(* lines 142-144, 329-337 *)
VisitUnaryExpression ==
    /\ pc = "walk" /\ inner # <<>>
    /\ \E node \in Reveal(Head(inner), analysis.body, fuel) :
          /\ node.type = "UnaryExpression"
          /\ analysis' = [analysis EXCEPT !.details = handleUnaryExpression(node, state, analysis)]
          /\ inner' = <<node.kids[1]>> \o Rest(Head(inner), node) \o Tail(inner)
          /\ fuel' = Spend(Head(inner), node, fuel)
    /\ UNCHANGED <<code, pc, outer, loopDepths, state, functions,
                   overallComplexity, result>>

(* lines 68-71: a node type createVisitors has no visitor for *)
WalkBase ==
    /\ pc = "walk" /\ inner # <<>>
    /\ \E node \in Reveal(Head(inner), analysis.body, fuel) :
          /\ node.type \notin ExtractorTypes
          /\ node.type # "createLoopVisitor:exit"
          /\ inner' = baseChildren(node) \o Rest(Head(inner), node) \o Tail(inner)
          /\ fuel' = Spend(Head(inner), node, fuel)
    /\ UNCHANGED <<code, pc, outer, analysis, loopDepths, state, functions,
                   overallComplexity, result>>

(* lines 73-81: the walk has returned *)
Seal ==
    /\ pc = "walk" /\ inner = <<>>
    /\ LET sealed == [analysis EXCEPT !.details.nestedLoopDepth = loopDepths.maxLoopDepth]
           classified == [sealed EXCEPT !.complexity = determineComplexity(sealed)]
       IN  /\ analysis' = classified
           /\ overallComplexity' = aggregate(overallComplexity, classified.complexity)
           /\ functions' = Append(functions, classified)
    /\ pc' = "locate"
    /\ UNCHANGED <<code, outer, inner, loopDepths, state, result, fuel>>

(* lines 85-88 *)
Return ==
    /\ pc = "locate" /\ outer = <<>>
    /\ result' = returnValue(overallComplexity, functions)
    /\ pc' = "done"
    /\ UNCHANGED <<code, outer, inner, analysis, loopDepths, state, functions,
                   overallComplexity, fuel>>

(* lines 42, 90-96: the recursive descent of acorn-walk exhausts the call  *)
(* stack (RangeError) at a callback; how much stack the caller of          *)
(* analyzeCode left is not known, so any visit may be the one that throws. *)
(* Unwinding to the catch block drops the frames of both walks; the array  *)
(* `functions` stays as it was until it is collected.                      *)
Throw ==
    /\ pc \in {"locate", "walk"}
    /\ (IF pc = "locate" THEN outer ELSE inner) # <<>>
    /\ result' = catchBlock(<<"Maximum call stack size exceeded">>)
    /\ pc' = "done"
    /\ outer' = <<>>
    /\ inner' = <<>>
    /\ analysis' = NoAnalysis
    /\ loopDepths' = [currentLoopDepth |-> 0, maxLoopDepth |-> 0]
    /\ state' = [functionName |-> "", inLoop |-> FALSE]
    /\ UNCHANGED <<code, functions, overallComplexity, fuel>>

Next ==
    \/ Parse
    \/ ParseError
    \/ VisitFunctionDeclaration
    \/ VisitVariableDeclarator
    \/ VisitMethodDefinition
    \/ VisitArrowFunctionExpression
    \/ LocateBase
    \/ VisitCallExpression
    \/ VisitLoop
    \/ LeaveLoop
    \/ VisitBinaryExpression
    \/ VisitMemberExpression
    \/ VisitUnaryExpression
    \/ WalkBase
    \/ Seal
    \/ Return
    \/ Throw


(* a text acorn.parse rejects, with the message of its SyntaxError *)
SyntaxErrors ==
    { [parses |-> FALSE, message |-> <<m>>, source |-> <<>>] :
        m \in {"Unexpected token (1:9)", "Unterminated string constant (2:4)"} }

MaxFunctions == 3

SeqsUpTo(S, n) == UNION { [1..k -> S] : k \in 0..n }

(* src/test-algorithms.js as a whole *)
TestAlgorithms ==
    << Item("quickSort"), Item("fibonacci"), Item("permutations"),
       Item("constantTime"), Item("linearTime"), Item("quadraticTime"),
       Item("binarySearch"), Item("mergeSort"), Item("merge") >>

Inputs ==
    SyntaxErrors
    \cup { Source(TestAlgorithms) }
    \cup { Source(<<Item(name)>>) : name \in TestItems \cup ShapeItems }
    \cup { Source(<<LoopItem(forest)>>) : forest \in LoopForests }
    \cup { Source(items) : items \in SeqsUpTo({Item(name) : name \in TinyItems}, MaxFunctions) }
    \cup { Source(<<HoleItem(text)>>) : text \in HoleTexts }

Init ==
    /\ code \in Inputs
    /\ pc = "start"
    /\ outer = <<>>
    /\ inner = <<>>
    /\ analysis = NoAnalysis
    /\ loopDepths = [currentLoopDepth |-> 0, maxLoopDepth |-> 0]
    /\ state = [functionName |-> "", inLoop |-> FALSE]
    /\ functions = <<>>
    /\ overallComplexity = O_CONSTANT
    /\ result = NoResult
    /\ fuel = MaxNodes

Spec == Init /\ [][Next]_vars

-----------------------------------------------------------------------------
(* The aggregation of analyzeFunction on its own: lines 74-80 applied to   *)
(* per-function classes given directly. code.source is a list of classes   *)
(* and outer holds the same classes, reordered, still to be aggregated.    *)

MaxClasses == 3

(* lines 74-80 *)
Aggregate ==
    /\ pc = "fold" /\ outer # <<>>
    /\ LET complexity == Head(outer)
       IN  /\ analysis' = [newAnalysis("f", {}) EXCEPT !.complexity = complexity]
           /\ functions' = Append(functions, analysis')
           /\ overallComplexity' = aggregate(overallComplexity, complexity)
    /\ outer' = Tail(outer)
    /\ UNCHANGED <<code, pc, inner, loopDepths, state, result, fuel>>

InitFold ==
    /\ \E classes \in SeqsUpTo(TimeComplexity, MaxClasses) :
         \E p \in Permutations(DOMAIN classes) :
            /\ code = Source(classes)
            /\ outer = [i \in DOMAIN classes |-> classes[p[i]]]
    /\ pc = "fold"
    /\ inner = <<>>
    /\ analysis = NoAnalysis
    /\ loopDepths = [currentLoopDepth |-> 0, maxLoopDepth |-> 0]
    /\ state = [functionName |-> "", inLoop |-> FALSE]
    /\ functions = <<>>
    /\ overallComplexity = O_CONSTANT
    /\ result = NoResult
    /\ fuel = 0

NextFold == Aggregate

SpecFold == InitFold /\ [][NextFold]_vars

-----------------------------------------------------------------------------
(* What an input says, read off its syntax tree without either walk *)

Succeeded == pc = "done" /\ result.error = <<>>

Failed == pc = "done" /\ result.error # <<>>

(* no part of the input is left to be revealed *)
Explicit ==
    /\ code.parses
    /\ \A i \in DOMAIN code.source : code.source[i].item # "hole"

(* the position of a class in CONSTANT < LOGARITHMIC < LINEAR <            *)
(* LINEARITHMIC < QUADRATIC < CUBIC < EXPONENTIAL < FACTORIAL               *)
Rank(c) ==
    CASE c = "O(1)"       -> 1
      [] c = "O(log n)"   -> 2
      [] c = "O(n)"       -> 3
      [] c = "O(n log n)" -> 4
      [] c = "O(n^2)"     -> 5
      [] c = "O(n^3)"     -> 6
      [] c = "O(2^n)"     -> 7
      [] c = "O(n!)"      -> 8

Maximum(classes) ==
    IF classes = <<>> THEN "O(1)"
    ELSE CHOOSE c \in { classes[i] : i \in DOMAIN classes } :
            \A i \in DOMAIN classes : Rank(classes[i]) <= Rank(c)

ClassesOf(fns) == [i \in DOMAIN fns |-> fns[i].complexity]

RECURSIVE Preorder(_)
RECURSIVE PreorderAll(_)
(* every node of a subtree, in source order *)
Preorder(node) == <<node>> \o PreorderAll(node.kids)
PreorderAll(nodes) ==
    IF nodes = <<>> THEN <<>>
    ELSE Preorder(Head(nodes)) \o PreorderAll(Tail(nodes))

FunctionTypes ==
    { "FunctionDeclaration", "FunctionExpression", "ArrowFunctionExpression" }

RECURSIVE OwnNodes(_)
RECURSIVE OwnNodesAll(_)
(* the nodes of a subtree outside the function definitions nested in it *)
OwnNodes(node) ==
    IF node.type \in FunctionTypes THEN <<>>
    ELSE <<node>> \o OwnNodesAll(node.kids)
OwnNodesAll(nodes) ==
    IF nodes = <<>> THEN <<>>
    ELSE OwnNodes(Head(nodes)) \o OwnNodesAll(Tail(nodes))

IsLoop(node) ==
    node.type \in { "ForStatement", "ForInStatement", "ForOfStatement",
                    "WhileStatement", "DoWhileStatement" }

IsIdentifierCall(node) ==
    node.type = "CallExpression" /\ node.kids[1].type = "Identifier"

IsCallTo(node, name) == IsIdentifierCall(node) /\ node.kids[1].name = name

IsMemberCall(node) ==
    node.type = "CallExpression" /\ node.kids[1].type = "MemberExpression"

IsMethodCall(node, method) ==
    /\ IsMemberCall(node)
    /\ node.kids[1].kids[2].type = "Identifier"
    /\ node.kids[1].kids[2].name = method

LoopsIn(nodes) == Cardinality({ i \in DOMAIN nodes : IsLoop(nodes[i]) })

RECURSIVE LoopNesting(_)
RECURSIVE DeepestOf(_)
(* the largest number of loops around any node of a subtree *)
LoopNesting(node) ==
    (IF IsLoop(node) THEN 1 ELSE 0) + DeepestOf(node.kids)
DeepestOf(nodes) ==
    IF nodes = <<>> THEN 0
    ELSE LET h == LoopNesting(Head(nodes))
             t == DeepestOf(Tail(nodes))
         IN  IF h >= t THEN h ELSE t

(* the named function declarations that are top-level statements *)
TopFunctions ==
    LET stmts == parse(code.source).kids
    IN  { stmts[i] : i \in { k \in DOMAIN stmts :
                               /\ stmts[k].type = "FunctionDeclaration"
                               /\ stmts[k].name # "" } }

(* the Function Analyses of the result under a name *)
RecordsOf(name) ==
    { result.functions[j] :
        j \in { k \in DOMAIN result.functions : result.functions[k].name = name } }

(* k loops one after another; k loops one inside the other *)
SequentialLoops(k) == [i \in 1..k |-> <<>>]

RECURSIVE NestedLoops(_)
NestedLoops(k) == IF k = 0 THEN <<>> ELSE <<NestedLoops(k - 1)>>

-----------------------------------------------------------------------------
(* C1: whenever the input parses, the overallComplexity analyzeCode        *)
(* returns is the maximum, under CONSTANT < LOGARITHMIC < LINEAR <         *)
(* LINEARITHMIC < QUADRATIC < CUBIC < EXPONENTIAL < FACTORIAL, of the      *)
(* complexity fields of the functions it returns, CONSTANT when there are  *)
(* none; the same holds of the running overall class after each function,  *)
(* and every returned function still has the class determineComplexity     *)
(* gave its own record.                                                    *)
C1_OverallIsMaximum ==
    /\ pc \in {"locate", "walk"} =>
          overallComplexity = Maximum(ClassesOf(functions))
    /\ Succeeded =>
          /\ result.overallComplexity = Maximum(ClassesOf(result.functions))
          /\ \A i \in DOMAIN result.functions :
                result.functions[i].complexity =
                    determineComplexity(result.functions[i])

(* a result of several functions whose greatest class is not the last one *)
C1_Witness ==
    /\ Succeeded
    /\ \E i, j \in DOMAIN result.functions :
          /\ i < j
          /\ Rank(result.functions[i].complexity) > Rank(result.functions[j].complexity)
          /\ result.overallComplexity = result.functions[i].complexity

RECURSIVE Fold(_, _)
(* lines 76-78 applied to a list of classes from left to right *)
Fold(overall, classes) ==
    IF classes = <<>> THEN overall
    ELSE Fold(aggregate(overall, Head(classes)), Tail(classes))

(* C2: for any list of per-function classes and any reordering of it, the  *)
(* running-maximum fold of analyzeFunction, started from CONSTANT, ends    *)
(* with the same overall class as the fold of the list in its own order,   *)
(* which is the maximum of the list.                                       *)
C2_OrderIndependent ==
    (pc = "fold" /\ outer = <<>>) =>
        /\ overallComplexity = Fold(O_CONSTANT, code.source)
        /\ overallComplexity = Maximum(code.source)

(* three classes aggregated in another order than the list's, the greatest *)
(* neither first nor last                                                  *)
C2_Witness ==
    /\ pc = "fold" /\ outer = <<>>
    /\ Len(functions) = 3
    /\ ClassesOf(functions) # code.source
    /\ Rank(functions[2].complexity) > Rank(functions[1].complexity)
    /\ Rank(functions[2].complexity) > Rank(functions[3].complexity)
    /\ overallComplexity = functions[2].complexity

(* C3: when acorn.parse rejects the text, and when any later statement of  *)
(* the try block throws, analyzeCode returns the failure shape:            *)
(* overallComplexity CONSTANT, functions empty, and an error message that  *)
(* is not empty; no Function Analysis produced before the failure is in    *)
(* the result. A text that does not parse never gives anything else.       *)
C3_FailureShape ==
    /\ (pc = "done" /\ ~code.parses) => result.error # <<>>
    /\ Failed =>
          /\ result.overallComplexity = O_CONSTANT
          /\ result.functions = <<>>
          /\ Len(result.error) >= 1
          /\ \A i \in DOMAIN result.error : result.error[i] # ""

(* an exception after Function Analyses had been produced *)
C3_Witness ==
    /\ Failed
    /\ code.parses
    /\ Len(functions) >= 2
    /\ overallComplexity # O_CONSTANT
    /\ result.functions = <<>>

ExitsPending(agenda) ==
    Cardinality({ i \in DOMAIN agenda : agenda[i].type = "createLoopVisitor:exit" })

(* C4: the sealed nestedLoopDepth of a function is the largest number of   *)
(* loops (for, for-in, for-of, while, do-while) around any node of the     *)
(* walked body, and loopCount is the number of loops in it; k loops one    *)
(* after another give loopCount k and depth 1, k loops inside one another  *)
(* give depth k. During the walk currentLoopDepth is the number of loops   *)
(* around the node being visited and maxLoopDepth is never below it.       *)
C4_NestedLoopDepth ==
    /\ pc = "walk" =>
          /\ loopDepths.currentLoopDepth = ExitsPending(inner)
          /\ loopDepths.maxLoopDepth >= loopDepths.currentLoopDepth
          /\ loopDepths.maxLoopDepth <= analysis.details.loopCount
    /\ (Succeeded /\ Explicit) =>
          /\ \A s \in TopFunctions :
                /\ RecordsOf(s.name) # {}
                /\ \A r \in RecordsOf(s.name) :
                      /\ r.details.nestedLoopDepth = LoopNesting(s.kids[1])
                      /\ r.details.loopCount = LoopsIn(Preorder(s.kids[1]))
          /\ \A k \in 1..MaxLoops :
                /\ code.source = <<LoopItem(SequentialLoops(k))>> =>
                      /\ result.functions[1].details.loopCount = k
                      /\ result.functions[1].details.nestedLoopDepth = 1
                /\ code.source = <<LoopItem(NestedLoops(k))>> =>
                      result.functions[1].details.nestedLoopDepth = k

(* two nested loops followed by a third: three loops, depth two *)
C4_Witness ==
    /\ Succeeded
    /\ code.source = <<LoopItem(<< NestedLoops(2)[1], <<>> >>)>>
    /\ result.functions[1].details.loopCount = 3
    /\ result.functions[1].details.nestedLoopDepth = 2

RecursionConsistent(details) ==
    details.recursionDetected <=> details.recursiveCallCount >= 1

(* C5: in the Feature Record of the function being walked, after every     *)
(* visit, and in every sealed record, recursionDetected is true exactly    *)
(* when recursiveCallCount is at least 1.                                  *)
C5_RecursionDetectedIffCounted ==
    /\ RecursionConsistent(analysis.details)
    /\ \A i \in DOMAIN functions : RecursionConsistent(functions[i].details)
    /\ \A i \in DOMAIN result.functions :
          RecursionConsistent(result.functions[i].details)

(* a sealed record of a function that calls itself twice *)
C5_Witness ==
    /\ Succeeded
    /\ \E i \in DOMAIN result.functions :
          /\ result.functions[i].details.recursiveCallCount = 2
          /\ result.functions[i].details.recursionDetected

(* the named function declarations inside a function body, at any depth *)
NestedDeclarations(body) ==
    LET nodes == Preorder(body)
    IN  { nodes[i] : i \in { k \in DOMAIN nodes :
                               /\ nodes[k].type = "FunctionDeclaration"
                               /\ nodes[k].name # "" } }

(* the names a function's own code calls *)
OwnCallees(body) ==
    LET nodes == OwnNodes(body)
    IN  { nodes[i].kids[1].name :
            i \in { k \in DOMAIN nodes : IsIdentifierCall(nodes[k]) } }

(* C6: for every named function declared inside the body of a top-level   *)
(* function, the result holds a Function Analysis under the inner          *)
(* function's name, and the Feature Record of the enclosing function       *)
(* counts only the loops and the callees of its own code.                  *)
C6_NestedFunctionsAnalysedApart ==
    (Succeeded /\ Explicit) =>
        \A s \in TopFunctions :
            \A n \in NestedDeclarations(s.kids[1]) :
                /\ RecordsOf(n.name) # {}
                /\ \A r \in RecordsOf(s.name) :
                      /\ r.details.loopCount = LoopsIn(OwnNodes(s.kids[1]))
                      /\ DOMAIN r.details.functionCalls = OwnCallees(s.kids[1])

(* the methods of classes and of object literals whose key is an identifier *)
Methods ==
    LET nodes == Preorder(parse(code.source))
    IN  { nodes[i] : i \in { k \in DOMAIN nodes :
            /\ nodes[k].name # ""
            /\ \/ nodes[k].type = "MethodDefinition"
               \/ /\ nodes[k].type = "Property"
                  /\ nodes[k].kids[1].type = "FunctionExpression" } }

(* C7: every method of a class and every method of an object literal has   *)
(* exactly one Function Analysis in the result, under the method's name.   *)
C7_MethodsAnalysed ==
    (Succeeded /\ Explicit) =>
        \A m \in Methods :
            Cardinality({ j \in DOMAIN result.functions :
                            result.functions[j].name = m.name }) = 1

(* a function that calls itself twice, each time on the result of a        *)
(* .slice(...) call, takes Math.floor of a division by 2, compares with    *)
(* <=, returns, calls another function, and has none of "concat", "push",  *)
(* "splice" in its text                                                    *)
MergeSortShape(s) ==
    LET nodes == OwnNodes(s.kids[1])
        selfCalls == { i \in DOMAIN nodes : IsCallTo(nodes[i], s.name) }
    IN  /\ Cardinality(selfCalls) = 2
        /\ \A i \in selfCalls :
              /\ Len(nodes[i].kids) = 2
              /\ IsMethodCall(nodes[i].kids[2], "slice")
        /\ \E i \in DOMAIN nodes :
              /\ IsMethodCall(nodes[i], "floor")
              /\ nodes[i].kids[1].kids[1].name = "Math"
              /\ Len(nodes[i].kids) = 2
              /\ nodes[i].kids[2].type = "BinaryExpression"
              /\ nodes[i].kids[2].op = "/"
              /\ isLiteralNumber(nodes[i].kids[2].kids[2], 2)
        /\ \E i \in DOMAIN nodes :
              nodes[i].type = "BinaryExpression" /\ nodes[i].op = "<="
        /\ \E i \in DOMAIN nodes : nodes[i].type = "ReturnStatement"
        /\ \E i \in DOMAIN nodes :
              IsIdentifierCall(nodes[i]) /\ ~IsCallTo(nodes[i], s.name)
        /\ ~includes(s.text, "concat")
        /\ ~includes(s.text, "push")
        /\ ~includes(s.text, "splice")

(* C8: a function of the merge-sort shape is classified O(n log n). *)
C8_MergeSortIsLinearithmic ==
    (Succeeded /\ Explicit) =>
        \A s \in TopFunctions :
            MergeSortShape(s) =>
                \A r \in RecordsOf(s.name) : r.complexity = O_LINEARITHMIC

(* an outer function that declares a helper and calls it once; the helper  *)
(* has a loop that holds a call of the helper to itself and .slice calls   *)
PermutationShape(s) ==
    LET own == OwnNodes(s.kids[1])
    IN  \E helper \in NestedDeclarations(s.kids[1]) :
          /\ Cardinality({ i \in DOMAIN own : IsCallTo(own[i], helper.name) }) = 1
          /\ \E loop \in { n \in { Preorder(helper)[i] : i \in DOMAIN Preorder(helper) } :
                             IsLoop(n) } :
                LET inside == Preorder(loop)
                IN  /\ \E i \in DOMAIN inside : IsCallTo(inside[i], helper.name)
                    /\ \E i \in DOMAIN inside : IsMethodCall(inside[i], "slice")

(* C9: a permutation generator of that shape is classified O(n!). *)
C9_PermutationsIsFactorial ==
    (Succeeded /\ Explicit) =>
        \A s \in TopFunctions :
            PermutationShape(s) =>
                /\ RecordsOf(s.name) # {}
                /\ \A r \in RecordsOf(s.name) : r.complexity = O_FACTORIAL

(* a function without loops whose identifier calls are exactly two calls   *)
(* of itself with fewer than 3 arguments, with no member call and no       *)
(* division, and with neither "/2" nor "/ 2" in its text                   *)
FibonacciShape(s) ==
    LET nodes == Preorder(s.kids[1])
        calls == { i \in DOMAIN nodes : IsIdentifierCall(nodes[i]) }
    IN  /\ LoopsIn(nodes) = 0
        /\ Cardinality(calls) = 2
        /\ \A i \in calls :
              /\ IsCallTo(nodes[i], s.name)
              /\ Len(arguments(nodes[i])) < 3
        /\ \A i \in DOMAIN nodes :
              /\ ~IsMemberCall(nodes[i])
              /\ ~(nodes[i].type = "BinaryExpression" /\ nodes[i].op \in {"/", "/="})
        /\ ~includes(s.text, "/2")
        /\ ~includes(s.text, "/ 2")

ArrayMethodNames == { "filter", "map", "reduce", "slice", "concat", "splice" }

HasArrayMethodText(text) ==
    \/ includes(text, ".filter(")
    \/ includes(text, ".map(")
    \/ includes(text, ".reduce(")
    \/ includes(text, ".slice(")

(* a member access that is computed, or whose property is one of the array *)
(* method names, at a place the walk reaches after a call of the function  *)
(* to itself                                                               *)
MemberAccessAfterSelfCall(s) ==
    LET nodes == Preorder(s.kids[1])
    IN  \E i, j \in DOMAIN nodes :
          /\ i < j
          /\ IsCallTo(nodes[i], s.name)
          /\ nodes[j].type = "MemberExpression"
          /\ \/ nodes[j].computed
             \/ /\ nodes[j].kids[2].type = "Identifier"
                /\ nodes[j].kids[2].name \in ArrayMethodNames

IsFibonacciRecord(r) ==
    /\ r.details.recursionDetected
    /\ r.details.recursiveCallCount = 2
    /\ r.complexity = O_EXPONENTIAL

(* C10 as stated: a function of the Fibonacci shape has a sealed record    *)
(* with recursionDetected true and recursiveCallCount 2, and is classified *)
(* O(2^n).                                                                 *)
C10_FibonacciIsExponential ==
    (Succeeded /\ Explicit) =>
        \A s \in TopFunctions :
            FibonacciShape(s) =>
                /\ RecordsOf(s.name) # {}
                /\ \A r \in RecordsOf(s.name) : IsFibonacciRecord(r)

(* C10 amended: a function of the Fibonacci shape in which no computed     *)
(* member access and no access to a property named filter, map, reduce,    *)
(* slice, concat or splice follows a call of the function to itself, and   *)
(* whose text holds none of ".filter(", ".map(", ".reduce(", ".slice(",    *)
(* has a sealed record with recursionDetected true and recursiveCallCount  *)
(* 2, and is classified O(2^n). Of any sealed record: if it has no loop,   *)
(* its only callee is the function itself, counted twice, divideAndConquer *)
(* is not set and the text holds none of "/2", "/ 2" and the four array    *)
(* method texts, then it is such a record.                                 *)
C10_FibonacciIsExponentialAmended ==
    /\ (Succeeded /\ Explicit) =>
          \A s \in TopFunctions :
              ( /\ FibonacciShape(s)
                /\ ~MemberAccessAfterSelfCall(s)
                /\ ~HasArrayMethodText(s.text) ) =>
                    /\ RecordsOf(s.name) # {}
                    /\ \A r \in RecordsOf(s.name) : IsFibonacciRecord(r)
    /\ \A i \in DOMAIN functions :
          LET r == functions[i]
          IN  ( /\ r.details.loopCount = 0
                /\ DOMAIN r.details.functionCalls = {r.name}
                /\ r.details.functionCalls[r.name] = 2
                /\ ~r.details.divideAndConquer
                /\ ~includes(r.body, "/2")
                /\ ~includes(r.body, "/ 2")
                /\ ~HasArrayMethodText(r.body) ) => IsFibonacciRecord(r)

(* fibonacci of src/test-algorithms.js analysed *)
C10_Witness ==
    /\ Succeeded
    /\ code.source = <<Item("fibonacci")>>
    /\ FibonacciShape(fibonacci)
    /\ ~MemberAccessAfterSelfCall(fibonacci)
    /\ Len(result.functions) = 1
    /\ IsFibonacciRecord(result.functions[1])

(* the nodes a visitor of the function's walk may be handed next: the node *)
(* at the head of the agenda, or any node a Hole there may turn out to be  *)
NextNodes ==
    IF pc = "walk" /\ inner # <<>>
    THEN (IF Head(inner).type = "Hole" THEN HoleNodes ELSE {Head(inner)})
    ELSE {}

(* a call of the function to itself with at least 3 arguments, one of them *)
(* X + 1 or X - 1 with the literal 1                                       *)
IsBoundaryCall(node, name) ==
    /\ IsCallTo(node, name)
    /\ Len(arguments(node)) >= 3
    /\ \E i \in DOMAIN arguments(node) :
          LET arg == arguments(node)[i]
          IN  /\ arg.type = "BinaryExpression"
              /\ arg.op \in {"+", "-"}
              /\ arg.kids[2].type = "Literal"
              /\ arg.kids[2].op = "number"
              /\ arg.kids[2].value = 1

(* C11: in a function whose text contains "Math.floor", "/2" and "return"  *)
(* and neither "concat" nor "push", the visit of a call of the function to *)
(* itself with at least 3 arguments, one of them X + 1 or X - 1 with the   *)
(* literal 1, leaves recursiveBinarySearch and logarithmicOperations set,  *)
(* whatever the record held before; and every sealed record with           *)
(* recursiveBinarySearch set has the class O(log n).                       *)
C11_RecursiveBinarySearch ==
    /\ \A node \in NextNodes :
          ( /\ IsBoundaryCall(node, state.functionName)
            /\ includes(analysis.body, "Math.floor")
            /\ includes(analysis.body, "/2")
            /\ includes(analysis.body, "return")
            /\ ~includes(analysis.body, "concat")
            /\ ~includes(analysis.body, "push") ) =>
                LET after == handleCallExpression(node, state, analysis)
                IN  /\ after.recursiveBinarySearch
                    /\ after.logarithmicOperations
    /\ \A i \in DOMAIN functions :
          functions[i].details.recursiveBinarySearch =>
              functions[i].complexity = O_LOGARITHMIC

(* a sealed record of a function with a loop, in which the detector fired  *)
(* and divideAndConquer was set afterwards                                 *)
C11_Witness ==
    /\ Succeeded
    /\ \E i \in DOMAIN result.functions :
          LET r == result.functions[i]
          IN  /\ r.details.recursiveBinarySearch
              /\ r.details.logarithmicOperations
              /\ r.details.loopCount >= 1
              /\ r.details.divideAndConquer
              /\ r.complexity = O_LOGARITHMIC

IsDivisionByTwo(node) ==
    /\ node.type = "BinaryExpression"
    /\ node.op = "/"
    /\ node.kids[2].type = "Literal"
    /\ node.kids[2].op = "number"
    /\ node.kids[2].value = 2

(* a function that never calls itself, whose loops are not nested, with a  *)
(* division by the literal 2 inside a loop, and whose text has "=" and one *)
(* of "<", ">"                                                             *)
IterativeBinarySearchShape(s) ==
    LET nodes == Preorder(s.kids[1])
    IN  /\ \A i \in DOMAIN nodes : ~IsCallTo(nodes[i], s.name)
        /\ LoopNesting(s.kids[1]) = 1
        /\ \E i \in DOMAIN nodes :
              /\ IsLoop(nodes[i])
              /\ \E k \in DOMAIN Preorder(nodes[i]) :
                    IsDivisionByTwo(Preorder(nodes[i])[k])
        /\ includes(s.text, "=")
        /\ includes(s.text, "<") \/ includes(s.text, ">")

IsBinarySearchRecord(r) ==
    /\ r.details.binarySearchPattern
    /\ r.details.logarithmicOperations
    /\ r.complexity = O_LOGARITHMIC

(* C12: a function that does not call itself, whose largest loop nesting   *)
(* is 1 and which has a division by the literal 2 inside a loop, with "="  *)
(* and one of "<", ">" in its text, gets binarySearchPattern and           *)
(* logarithmicOperations set and the class O(log n). Step by step: inLoop  *)
(* is true exactly inside a loop; the visit of such a division inside a    *)
(* loop, before any recursion, sets both signals; and a sealed record with *)
(* binarySearchPattern, no recursion and depth 1 has the class O(log n).   *)
C12_IterativeBinarySearch ==
    /\ (Succeeded /\ Explicit) =>
          \A s \in TopFunctions :
              IterativeBinarySearchShape(s) =>
                  /\ RecordsOf(s.name) # {}
                  /\ \A r \in RecordsOf(s.name) : IsBinarySearchRecord(r)
    /\ pc = "walk" => (state.inLoop <=> loopDepths.currentLoopDepth > 0)
    /\ \A node \in NextNodes :
          ( /\ IsDivisionByTwo(node)
            /\ state.inLoop
            /\ ~analysis.details.recursionDetected
            /\ includes(analysis.body, "=")
            /\ includes(analysis.body, "<") \/ includes(analysis.body, ">") ) =>
                LET after == handleBinaryExpression(node, state, analysis)
                IN  after.binarySearchPattern /\ after.logarithmicOperations
    /\ \A i \in DOMAIN functions :
          ( /\ functions[i].details.binarySearchPattern
            /\ ~functions[i].details.recursionDetected
            /\ functions[i].details.nestedLoopDepth = 1 ) =>
                functions[i].complexity = O_LOGARITHMIC

(* binarySearch of src/test-algorithms.js analysed *)
C12_Witness ==
    /\ Succeeded
    /\ code.source = <<Item("binarySearch")>>
    /\ IterativeBinarySearchShape(binarySearch)
    /\ Len(result.functions) = 1
    /\ result.functions[1].details.loopCount = 1
    /\ IsBinarySearchRecord(result.functions[1])

(* C13: every sealed record with recursionDetected, loopCount > 0 and      *)
(* recursiveBinarySearch not set, of a function whose text contains        *)
(* neither "/2" nor "/ 2", has the class O(n log n), whatever the number   *)
(* of calls of the function to itself.                                     *)
C13_RecursionWithLoopIsLinearithmic ==
    \A i \in DOMAIN functions :
        LET r == functions[i]
        IN  ( /\ r.details.recursionDetected
              /\ r.details.loopCount > 0
              /\ ~r.details.recursiveBinarySearch
              /\ ~includes(r.body, "/2")
              /\ ~includes(r.body, "/ 2") ) => r.complexity = O_LINEARITHMIC

(* quickSort of src/test-algorithms.js analysed: a loop and two calls of   *)
(* the function to itself                                                  *)
C13_Witness ==
    /\ Succeeded
    /\ code.source = <<Item("quickSort")>>
    /\ Len(result.functions) = 1
    /\ result.functions[1].details.recursionDetected
    /\ result.functions[1].details.recursiveCallCount = 2
    /\ result.functions[1].details.loopCount = 1
    /\ ~result.functions[1].details.recursiveBinarySearch
    /\ ~includes(result.functions[1].body, "/2")
    /\ ~includes(result.functions[1].body, "/ 2")
    /\ result.functions[1].complexity = O_LINEARITHMIC

(* the number of call sites a functionCalls entry stands for *)
CallSites(an, name) ==
    IF name \in DOMAIN an.details.functionCalls
    THEN (IF an.details.functionCalls[name] >= 0
          THEN an.details.functionCalls[name]
          ELSE 0 - an.details.functionCalls[name])
    ELSE 0

HasComparisonText(body) ==
    \/ includes(body, "<")
    \/ includes(body, ">")
    \/ includes(body, "===")
    \/ includes(body, "==")

(* the rules of the classifier as an ordered list of condition and class:  *)
(* 1, 2, 3a-3e, 4, 5, 6, 7, 8, 9, 10                                       *)
RuleList(an) ==
    LET d == an.details
        recursion == d.recursionDetected
        halveByTwo == includes(an.body, "/2") \/ includes(an.body, "/ 2")
        appendIdiom == \/ includes(an.body, "concat")
                       \/ includes(an.body, "push")
                       \/ includes(an.body, "splice")
        roundAndHalve ==
            /\ \/ includes(an.body, "Math.floor")
               \/ includes(an.body, "Math.ceil")
               \/ includes(an.body, "parseInt")
               \/ includes(an.body, ">>1")
               \/ includes(an.body, ">>>1")
            /\ includes(an.body, "/2")
        helperCalled == \E name \in DOMAIN d.functionCalls : name # an.name
    IN  << [when  |-> d.recursiveBinarySearch,
            class |-> "O(log n)"],
           [when  |-> /\ recursion /\ halveByTwo /\ HasComparisonText(an.body)
                      /\ includes(an.body, "return") /\ ~appendIdiom,
            class |-> "O(log n)"],
           [when  |-> /\ recursion /\ roundAndHalve /\ includes(an.body, "return")
                      /\ HasComparisonText(an.body) /\ d.recursiveCallCount <= 2,
            class |-> "O(log n)"],
           [when  |-> /\ recursion
                      /\ \/ d.divideAndConquer
                         \/ HasArrayMethodText(an.body)
                         \/ d.loopCount > 0
                         \/ helperCalled,
            class |-> "O(n log n)"],
           [when  |-> /\ recursion /\ CallSites(an, an.name) >= 2
                      /\ ~d.recursiveBinarySearch,
            class |-> "O(2^n)"],
           [when  |-> /\ recursion /\ d.nestedLoopDepth > 0
                      /\ Cardinality(DOMAIN d.functionCalls) > 2,
            class |-> "O(n!)"],
           [when  |-> recursion,
            class |-> "O(2^n)"],
           [when  |-> ~recursion /\ d.nestedLoopDepth >= 3,
            class |-> "O(n^3)"],
           [when  |-> ~recursion /\ d.nestedLoopDepth = 2,
            class |-> "O(n^2)"],
           [when  |-> d.binarySearchPattern,
            class |-> "O(log n)"],
           [when  |-> d.divideAndConquer /\ d.loopCount > 0,
            class |-> "O(n log n)"],
           [when  |-> d.loopCount > 0 \/ d.linearOperations,
            class |-> "O(n)"],
           [when  |-> d.divideAndConquer \/ d.logarithmicOperations,
            class |-> "O(log n)"],
           [when  |-> TRUE,
            class |-> "O(1)"] >>

FirstMatch(rules) ==
    LET first == CHOOSE i \in DOMAIN rules :
                    rules[i].when /\ \A j \in 1..(i - 1) : ~rules[j].when
    IN  rules[first].class

(* C14: the class of every sealed record is the class of the first rule of *)
(* the ordered list 1, 2, 3a-3e, 4-10 that matches the record and the body *)
(* text.                                                                   *)
C14_DecisionList ==
    \A i \in DOMAIN functions :
        functions[i].complexity = FirstMatch(RuleList(functions[i]))

(* what a step of a walk may do to the Feature Record *)
NotDowngraded(before, after) ==
    /\ before.recursionDetected => after.recursionDetected
    /\ before.logarithmicOperations => after.logarithmicOperations
    /\ before.linearOperations => after.linearOperations
    /\ before.binarySearchPattern => after.binarySearchPattern
    /\ before.recursiveBinarySearch => after.recursiveBinarySearch
    /\ after.loopCount >= before.loopCount
    /\ after.recursiveCallCount >= before.recursiveCallCount
    /\ (before.divideAndConquer /\ ~after.divideAndConquer) =>
          (after.recursiveBinarySearch /\ after.logarithmicOperations)

(* C15: from the start of a function's walk until its record is sealed, no *)
(* step turns recursionDetected, logarithmicOperations, linearOperations,  *)
(* binarySearchPattern or recursiveBinarySearch from true to false, none   *)
(* lowers loopCount or recursiveCallCount, and divideAndConquer goes from  *)
(* true to false only in a step that leaves recursiveBinarySearch set.     *)
C15_NoSignalDowngraded ==
    [][ (pc = "walk" /\ pc' \in {"walk", "locate"}) =>
            NotDowngraded(analysis.details, analysis'.details) ]_vars

(* divideAndConquer is set and the next visit may be the one that clears   *)
(* it                                                                      *)
C15_Witness ==
    /\ pc = "walk" /\ inner # <<>>
    /\ analysis.details.divideAndConquer
    /\ analysis.details.logarithmicOperations \/ analysis.details.linearOperations
    /\ \E node \in Reveal(Head(inner), analysis.body, fuel) :
          /\ node.type = "CallExpression"
          /\ ~handleCallExpression(node, state, analysis).divideAndConquer


-----------------------------------------------------------------------------
(* C16 *)

(* The walk of lines 68-71 as a function of the agenda and the three       *)
(* objects analyzeFunction creates, with nothing else in reach: the record *)
(* as it stands when the agenda is empty, nestedLoopDepth filled in.       *)
RECURSIVE WalkAlone(_, _, _, _)
WalkAlone(agenda, st, an, depths) ==
    IF agenda = <<>>
    THEN [an EXCEPT !.details.nestedLoopDepth = depths.maxLoopDepth]
    ELSE LET node == Head(agenda)
             rest == Tail(agenda)
         IN  CASE node.type = "createLoopVisitor:exit" ->
                    WalkAlone(rest, [st EXCEPT !.inLoop = node.computed], an,
                              exitLoop(depths))
               [] node.type \in LoopTypes ->
                    WalkAlone(node.kids \o <<LoopExit(st.inLoop)>> \o rest,
                              [st EXCEPT !.inLoop = TRUE],
                              [an EXCEPT !.details.loopCount = @ + 1],
                              enterLoop(depths))
               [] node.type = "CallExpression" ->
                    WalkAlone(callbacksOfCall(node) \o rest, st,
                              [an EXCEPT !.details = handleCallExpression(node, st, an)],
                              depths)
               [] node.type = "BinaryExpression" ->
                    WalkAlone(<<left(node), right(node)>> \o rest, st,
                              [an EXCEPT !.details = handleBinaryExpression(node, st, an)],
                              depths)
               [] node.type = "MemberExpression" ->
                    WalkAlone(<<object(node), property(node)>> \o rest, st,
                              [an EXCEPT !.details = handleMemberExpression(node, st, an)],
                              depths)
               [] node.type = "UnaryExpression" ->
                    WalkAlone(<<node.kids[1]>> \o rest, st,
                              [an EXCEPT !.details = handleUnaryExpression(node, st, an)],
                              depths)
               [] OTHER ->
                    WalkAlone(baseChildren(node) \o rest, st, an, depths)

(* the Function Analysis of a function declaration computed from its name  *)
(* and its body alone, starting from a record nothing has touched          *)
AnalysedAlone(fn) ==
    LET sealed == WalkAlone(<<fn.kids[1]>>,
                            [functionName |-> fn.name, inLoop |-> FALSE],
                            [name |-> fn.name, body |-> fn.text,
                             complexity |-> O_CONSTANT,
                             details |-> initFunctionDetails],
                            [currentLoopDepth |-> 0, maxLoopDepth |-> 0])
    IN  [sealed EXCEPT !.complexity = determineComplexity(sealed)]

(* C16: the Function Analysis (Feature Record and class) of a top-level    *)
(* function depends only on that function's name and body: whatever other  *)
(* top-level definitions stand before or after it in the input, and in     *)
(* whatever order, its record in the result is the one the function gets   *)
(* when analysed alone. Every call of analyzeCode starts from Init, since  *)
(* the module keeps no variable outside the call.                          *)
C16_RecordDependsOnOwnBodyOnly ==
    (Succeeded /\ Explicit) =>
        \A fn \in TopFunctions : RecordsOf(fn.name) = {AnalysedAlone(fn)}

(* three functions in one input: nested loops, then a recursion, then an   *)
(* empty body whose record shows nothing of the two before it              *)
C16_Witness ==
    /\ Succeeded /\ Explicit
    /\ Len(code.source) = 3
    /\ Len(result.functions) = 3
    /\ result.functions[1].details.nestedLoopDepth > 1
    /\ result.functions[2].details.recursionDetected
    /\ result.functions[2].details.loopCount = 0
    /\ result.functions[3].details = initFunctionDetails
    /\ \A fn \in TopFunctions : RecordsOf(fn.name) = {AnalysedAlone(fn)}


-----------------------------------------------------------------------------
(* C17 *)

(* C17: in every sealed Function Analysis, recursiveBinarySearch and       *)
(* divideAndConquer are never both true: once the recursive-binary-search  *)
(* detector has fired and cleared divideAndConquer, no later node of the   *)
(* same walk leaves divideAndConquer set at the end of the walk.           *)
C17_SearchExcludesDivideAndConquer ==
    \A i \in DOMAIN functions :
        ~(functions[i].details.recursiveBinarySearch /\ functions[i].details.divideAndConquer)


-----------------------------------------------------------------------------
(* C18 *)

(* C18: the division detector changes signals only when the right operand  *)
(* of the division is a literal: the visit of a `/` operation whose right  *)
(* operand is not a literal leaves divideAndConquer, binarySearchPattern,  *)
(* recursiveBinarySearch and logarithmicOperations as they were, in every  *)
(* state of the walk (also when recursion has been detected).              *)
C18_NonLiteralDivisorChangesNothing ==
    \A node \in NextNodes :
        (/\ node.type = "BinaryExpression"
         /\ node.op = "/"
         /\ right(node).type # "Literal")
        => LET d1 == handleBinaryExpression(node, state, analysis)
               d0 == analysis.details
           IN  /\ d1.divideAndConquer = d0.divideAndConquer
               /\ d1.binarySearchPattern = d0.binarySearchPattern
               /\ d1.recursiveBinarySearch = d0.recursiveBinarySearch
               /\ d1.logarithmicOperations = d0.logarithmicOperations


-----------------------------------------------------------------------------
(* C19 *)

(* the operators of handleUnaryExpression, line 330 *)
IsShift(node) ==
    /\ node.type = "BinaryExpression"
    /\ node.op \in {">>>", ">>", "<<"}

(* C19: whenever the walk visits a bit-shift operation (>>, >>> or <<, a   *)
(* binary operation node with a left and a right operand) while inside a   *)
(* loop or after recursion has been detected, divideAndConquer is true     *)
(* after the visit. createVisitors hands a BinaryExpression node to        *)
(* handleBinaryExpression.                                                 *)
C19_ShiftSetsDivideAndConquer ==
    \A node \in NextNodes :
        (IsShift(node) /\ (state.inLoop \/ analysis.details.recursionDetected))
        => handleBinaryExpression(node, state, analysis).divideAndConquer


-----------------------------------------------------------------------------
(* C20 *)

(* a sealed record of plain linear recursion: one self-call, no loop, no   *)
(* other identifier callee, no divide-and-conquer signal, and none of the  *)
(* texts /2, "/ 2", .filter(, .map(, .reduce(, .slice( in the body         *)
IsPlainLinearRecursion(r) ==
    /\ r.details.recursionDetected
    /\ r.details.recursiveCallCount = 1
    /\ CallSites(r, r.name) = 1
    /\ DOMAIN r.details.functionCalls = {r.name}
    /\ r.details.loopCount = 0
    /\ ~r.details.divideAndConquer
    /\ ~includes(r.body, "/2")
    /\ ~includes(r.body, "/ 2")
    /\ ~HasArrayMethodText(r.body)

(* C20: a function with exactly one self-call, no loops, no other          *)
(* identifier callee, divideAndConquer false, and a body text with none of *)
(* /2, "/ 2", .filter(, .map(, .reduce(, .slice( is classified EXPONENTIAL *)
C20_PlainRecursionIsExponential ==
    \A i \in DOMAIN functions :
        IsPlainLinearRecursion(functions[i]) => functions[i].complexity = O_EXPONENTIAL

(* such a function, with a base case (return and a comparison in its text) *)
(* and a rounding call next to the self-call                               *)
C20_Witness ==
    /\ Succeeded
    /\ \E i \in DOMAIN result.functions :
          LET r == result.functions[i]
          IN  /\ IsPlainLinearRecursion(r)
              /\ includes(r.body, "return")
              /\ includes(r.body, "<")
              /\ r.details.logarithmicOperations
              /\ r.complexity = O_EXPONENTIAL


-----------------------------------------------------------------------------
(* C21 *)

IsDivision(node) == node.type = "BinaryExpression" /\ node.op = "/"

IsLiteralDivision(node) ==
    /\ IsDivision(node)
    /\ right(node).type = "Literal"
    /\ right(node).op = "number"

(* a body with no call, no function nested in it, and exactly one          *)
(* division, whose right operand is a numeric literal                      *)
HasOneLiteralDivision(nodes) ==
    /\ \A i \in DOMAIN nodes :
          nodes[i].type # "CallExpression" /\ nodes[i].type \notin FunctionTypes
    /\ Cardinality({ i \in DOMAIN nodes : IsDivision(nodes[i]) }) = 1
    /\ \A i \in DOMAIN nodes : IsDivision(nodes[i]) => IsLiteralDivision(nodes[i])

(* the division of such a body is by a literal other than 2 and stands     *)
(* inside a loop                                                           *)
DividesInLoopNotByTwo(nodes) ==
    \E i, j \in DOMAIN nodes :
        /\ IsLoop(nodes[i])
        /\ i < j /\ j < i + Len(Preorder(nodes[i]))
        /\ IsLiteralDivision(nodes[j])
        /\ right(nodes[j]).value # 2

(* C21: in a function that is not recursive and has no calls, a single     *)
(* division by a numeric literal (of any value, 2 included) sets           *)
(* divideAndConquer; without a loop the function is then classified        *)
(* LOGARITHMIC, not CONSTANT, and with the division by a literal other     *)
(* than 2 inside a single loop it is classified LINEARITHMIC, not LINEAR.  *)
(* The first conjunct is the visit of the division, the second the sealed  *)
(* record such a visit leads to, the third the functions of the input.     *)
C21_LiteralDivisionMarksDivideAndConquer ==
    /\ \A node \in NextNodes :
          (/\ IsLiteralDivision(node)
           /\ ~analysis.details.recursionDetected
           /\ (~state.inLoop \/ right(node).value # 2))
          => handleBinaryExpression(node, state, analysis).divideAndConquer
    /\ \A k \in DOMAIN functions :
          LET r == functions[k]
          IN  (/\ ~r.details.recursionDetected
               /\ r.details.divideAndConquer
               /\ DOMAIN r.details.functionCalls = {}
               /\ ~r.details.linearOperations
               /\ ~r.details.binarySearchPattern)
              => /\ r.details.loopCount = 0 => r.complexity = O_LOGARITHMIC
                 /\ r.details.loopCount = 1 => r.complexity = O_LINEARITHMIC
    /\ (Succeeded /\ Explicit) =>
          \A fn \in TopFunctions :
              LET nodes == Preorder(fn.kids[1])
              IN  HasOneLiteralDivision(nodes) =>
                    \A r \in RecordsOf(fn.name) :
                        /\ LoopsIn(nodes) = 0 =>
                              r.details.divideAndConquer /\ r.complexity = O_LOGARITHMIC
                        /\ (LoopsIn(nodes) = 1 /\ DividesInLoopNotByTwo(nodes)) =>
                              r.details.divideAndConquer /\ r.complexity = O_LINEARITHMIC

(* an input with both cases: n / 2 alone in a body, and n / 3 in a loop    *)
C21_Witness ==
    /\ Succeeded /\ Explicit
    /\ \E fn \in TopFunctions :
          /\ HasOneLiteralDivision(Preorder(fn.kids[1]))
          /\ LoopsIn(Preorder(fn.kids[1])) = 0
          /\ \E r \in RecordsOf(fn.name) :
                r.details.divideAndConquer /\ r.complexity = O_LOGARITHMIC
    /\ \E fn \in TopFunctions :
          /\ HasOneLiteralDivision(Preorder(fn.kids[1]))
          /\ LoopsIn(Preorder(fn.kids[1])) = 1
          /\ DividesInLoopNotByTwo(Preorder(fn.kids[1]))
          /\ \E r \in RecordsOf(fn.name) :
                r.details.divideAndConquer /\ r.complexity = O_LINEARITHMIC


-----------------------------------------------------------------------------
(* C22 *)

(* the number functionCalls holds for a name, 0 when the name is absent *)
Counted(functionCalls, name) ==
    IF name \in DOMAIN functionCalls THEN functionCalls[name] ELSE 0

(* functionCalls after one more call site with the plain identifier name   *)
(* as its callee                                                           *)
OneMore(functionCalls, name) ==
    [n \in DOMAIN functionCalls \cup {name} |->
        IF n = name THEN Counted(functionCalls, name) + 1 ELSE functionCalls[n]]

(* the Feature Record after the visit of a node *)
DetailsAfter(node) ==
    CASE node.type = "CallExpression"   -> handleCallExpression(node, state, analysis)
      [] node.type = "BinaryExpression" -> handleBinaryExpression(node, state, analysis)
      [] node.type = "MemberExpression" -> handleMemberExpression(node, state, analysis)
      [] node.type = "UnaryExpression"  -> handleUnaryExpression(node, state, analysis)
      [] OTHER                          -> analysis.details

(* C22: at every point of a walk, for every name N, functionCalls[N] is    *)
(* the number of call sites visited so far whose callee is the plain       *)
(* identifier N (absent when zero), and recursiveCallCount equals          *)
(* functionCalls[own name] (0 when absent). Stated by induction on the     *)
(* visits: every entry is a positive number; the visit of a call site with *)
(* callee identifier N adds one to the entry of N and touches no other; a  *)
(* call site with a member-access callee, and every other node, leaves     *)
(* functionCalls as it is.                                                 *)
C22_CallCounts ==
    /\ \A n \in DOMAIN analysis.details.functionCalls :
          analysis.details.functionCalls[n] >= 1
    /\ analysis.details.recursiveCallCount =
          Counted(analysis.details.functionCalls, analysis.name)
    /\ \A node \in NextNodes :
          DetailsAfter(node).functionCalls =
              (IF IsIdentifierCall(node)
               THEN OneMore(analysis.details.functionCalls, callee(node).name)
               ELSE analysis.details.functionCalls)


-----------------------------------------------------------------------------
(* C23 *)

ClassOfRecord(r) ==
    IF r.details.recursionDetected
    THEN r.complexity \in {O_LOGARITHMIC, O_LINEARITHMIC, O_EXPONENTIAL}
    ELSE r.complexity \notin {O_EXPONENTIAL, O_FACTORIAL}

-----------------------------------------------------------------------------
(* C24 *)

(* the values of oldInLoop the loop visitors under way hold, innermost     *)
(* first                                                                   *)
SavedInLoop(agenda) ==
    LET exits == SelectSeq(agenda, LAMBDA n : n.type = "createLoopVisitor:exit")
    IN  [i \in DOMAIN exits |-> exits[i].computed]

(* C24: entering and leaving loops is a stack discipline. At every point   *)
(* of a walk currentLoopDepth is the number of loops around the node to be *)
(* visited (the loop visitors under way), state.inLoop is true exactly     *)
(* when currentLoopDepth >= 1, every loop visitor but the outermost has    *)
(* saved inLoop = true and the outermost false,                            *)
(* currentLoopDepth <= maxLoopDepth <= loopCount, and when the walk        *)
(* returns currentLoopDepth is 0 and inLoop is false.                      *)
C24_LoopStackDiscipline ==
    /\ pc = "walk" =>
          LET depth == loopDepths.currentLoopDepth
              saved == SavedInLoop(inner)
          IN  /\ depth = Len(saved)
              /\ state.inLoop <=> depth >= 1
              /\ \A i \in DOMAIN saved : saved[i] <=> i < Len(saved)
              /\ loopDepths.maxLoopDepth >= depth
              /\ loopDepths.maxLoopDepth <= analysis.details.loopCount
    /\ inner = <<>> => (loopDepths.currentLoopDepth = 0 /\ ~state.inLoop)

(* back in the second loop of three after leaving the third, with the body *)
(* of the second still to come                                             *)
C24_Witness ==
    /\ pc = "walk"
    /\ loopDepths.currentLoopDepth = 2
    /\ loopDepths.maxLoopDepth = 3
    /\ analysis.details.loopCount >= 3
    /\ state.inLoop
    /\ inner # <<>>
    /\ Head(inner).type # "createLoopVisitor:exit"


-----------------------------------------------------------------------------
(* C25 *)

SearchSignalsConsistent(details) ==
    /\ details.recursiveBinarySearch =>
          (details.recursionDetected /\ details.logarithmicOperations)
    /\ details.binarySearchPattern =>
          (details.logarithmicOperations /\ details.loopCount >= 1)

(* C25: the division detector never sets recursiveBinarySearch. In every   *)
(* walk recursiveBinarySearch becomes true only at the visit of a call of  *)
(* the function to itself with at least 3 arguments, and the visit of a    *)
(* binary operation leaves it as it is; so, during the walk and in every   *)
(* sealed record, recursiveBinarySearch implies recursionDetected and      *)
(* logarithmicOperations, and binarySearchPattern implies                  *)
(* logarithmicOperations and loopCount >= 1.                               *)
C25_SearchSignalOnlyFromSelfCall ==
    /\ \A node \in NextNodes :
          /\ node.type = "BinaryExpression" =>
                DetailsAfter(node).recursiveBinarySearch =
                    analysis.details.recursiveBinarySearch
          /\ (~analysis.details.recursiveBinarySearch
                /\ DetailsAfter(node).recursiveBinarySearch)
             => (IsCallTo(node, state.functionName) /\ Len(arguments(node)) >= 3)
          /\ SearchSignalsConsistent(DetailsAfter(node))
    /\ SearchSignalsConsistent(analysis.details)
    /\ \A i \in DOMAIN functions : SearchSignalsConsistent(functions[i].details)

(* after a self-call, a division by the literal 2 in a body whose text has *)
(* a comparison, a return and the name mid: the visit that the third       *)
(* branch of the division detector is written for                          *)
C25_Witness ==
    /\ pc = "walk"
    /\ analysis.details.recursionDetected
    /\ ~analysis.details.recursiveBinarySearch
    /\ \E node \in NextNodes :
          /\ IsLiteralDivision(node)
          /\ isRecursiveBinarySearchPattern(analysis, node)
          /\ ~DetailsAfter(node).recursiveBinarySearch
          /\ DetailsAfter(node).divideAndConquer

=============================================================================
